---------------------------- MODULE Spec2Model ----------------------------
(***************************************************************************)
(* The aggregated discovery (ADS) server of pilot: the per-stream request  *)
(* loop StreamAggregatedResources, the connection table maintained by      *)
(* addCon/removeCon, the EDS watcher table, and the global fan-out         *)
(* adsPushAll (package v2, stored in src/pilot/pkg/proxy/envoy/v1/         *)
(* policy.go from line 123 on).                                            *)
(*                                                                         *)
(* A handler round (the body of one `select` case) is one action that     *)
(* takes the event and decides, followed by one action for each call that  *)
(* other goroutines can see the effect of: addEdsCon, a push, addCon, the  *)
(* return with its deferred removeCon.  What a round writes to the stream  *)
(* is kept in `out`, the event it serves in `ev`, so that a property can   *)
(* speak about "the response to this request".                             *)
(***************************************************************************)
EXTENDS Integers, Sequences, FiniteSets, TLC

\* ------------------------------------------------------------------ bounds

\* Longest ResourceNames list a DiscoveryRequest carries.
MaxNames == 2

\* Streams (one XdsConnection each), resource names, callers of adsPushAll.
Conns == {"c1", "c2"}
Names == {"a", "b"}
Pushers == {"p1"}

\* Node.Id values: two well-formed ones, the empty one (policy.go:332) and
\* one that ParseServiceNode rejects (policy.go:336).
ValidNodes == {"n1", "n2"}
NodeIds == ValidNodes \cup {"", "bad"}

\* The message of an ErrorDetail.
ErrMsg == "rejected"

\* ----------------------------------------------------------- type urls

ClusterType == "CDS"
ListenerType == "LDS"
RouteType == "RDS"
EndpointType == "EDS"
UnknownType == "???"
Types == {ClusterType, ListenerType, RouteType, EndpointType}

\* ---------------------------------------------------------------- helpers

\* All lists over S of length at most n.
SeqsUpTo(S, n) == UNION {[1..k -> S] : k \in 0..n}

\* The elements of a list.
Range(s) == {s[i] : i \in 1..Len(s)}

\* Orders in which a `range` over a Go map with key set S can visit it.
Orders(S) == {q \in [1..Cardinality(S) -> S] : Range(q) = S}

\* A response carries its type and the resources it covers; CDS and LDS
\* responses carry everything the node needs, written <<"*">>.
All == <<"*">>
NoResp == <<"-">>
NoConID == <<>>

\* The ResourceNames lists: the handler compares lengths and walks the list
\* name by name, so one order of each set of names stands for all.
NameOrder == <<"a", "b">>
InOrder(s) ==
    \A i, j \in 1..Len(s) :
        i < j => \E m, n \in 1..Len(NameOrder) :
                    m < n /\ NameOrder[m] = s[i] /\ NameOrder[n] = s[j]
NameLists == {s \in SeqsUpTo(Names, MaxNames) : InOrder(s)}

\* ------------------------------------------------------------ connection

\* modelNode before the first request with a node id.
NoNode == "nil"

\* The XdsConnection built when a stream is opened.
NewConnection ==
    [ConID |-> NoConID, modelNode |-> NoNode, Clusters |-> <<>>,
     Routes |-> <<>>, LDSWatch |-> FALSE, CDSWatch |-> FALSE, added |-> FALSE]

\* DiscoveryRequests: Node.Id, TypeUrl, ResourceNames and whether ErrorDetail
\* is set.  VersionInfo and ResponseNonce are only logged by the handler.
Requests ==
    [node : NodeIds, type : Types \cup {UnknownType},
     names : NameLists, err : BOOLEAN]

\* model.ParseServiceNode: fails on a malformed id.
ParseServiceNode(id) == [err |-> id \notin ValidNodes, ID |-> id]

\* connectionID: the node id and the next value of a process-wide counter.
connectionID(node, num) == <<node, num + 1>>

\* What one response covers.
Response(cn, t) ==
    [type |-> t,
     names |-> CASE t = RouteType -> cn.Routes
                 [] t = EndpointType -> cn.Clusters
                 [] OTHER -> All]

\* The four push functions: they send one response, or fail and send none.
pushCds(cn, fail) ==
    [err |-> fail, sent |-> IF fail THEN <<>> ELSE <<Response(cn, ClusterType)>>]

pushLds(cn, fail) ==
    [err |-> fail, sent |-> IF fail THEN <<>> ELSE <<Response(cn, ListenerType)>>]

pushEds(cn, fail) ==
    [err |-> fail, sent |-> IF fail THEN <<>> ELSE <<Response(cn, EndpointType)>>]

\* pushRoute: one route configuration per watched route; a failure to get the
\* proxy's instances or to send returns the error and nothing is sent.
pushRoute(cn, fail) ==
    [err |-> fail, sent |-> IF fail THEN <<>> ELSE <<Response(cn, RouteType)>>]

\* ------------------------------------------------- the request switch

\* A case of the switch yields the connection as it leaves it, what it sent,
\* how it leaves ("continue": next loop round, "break": past the switch,
\* "return": the handler returns the push error), the reject metrics it
\* incremented and the clusters it called addEdsCon for.
Outcome(cn, sent, flow, metric, watch) ==
    [con |-> cn, sent |-> sent, flow |-> flow, metric |-> metric, watch |-> watch]

\* A handler that goes on to the next select after a failed push.
AfterPushGoesOn(cn, p, watch) == Outcome(cn, p.sent, "break", {}, watch)

AfterPush(cn, p, watch) ==
    Outcome(cn, p.sent, IF p.err THEN "return" ELSE "break", {}, watch)

\* case ClusterType
caseCluster(cn, r, fail) ==
    IF cn.CDSWatch
    THEN Outcome(cn, <<>>, "continue",
                 IF r.err THEN {<<ClusterType, r.node, ErrMsg>>} ELSE {}, {})
    ELSE LET c2 == [cn EXCEPT !.CDSWatch = TRUE]
         IN AfterPush(c2, pushCds(c2, fail), {})

\* An LDS case that takes a set CDS flag for its own.
caseListenerSharesFlag(cn, r, fail) ==
    IF cn.LDSWatch \/ cn.CDSWatch
    THEN Outcome(cn, <<>>, "continue",
                 IF r.err THEN {<<ListenerType, r.node, ErrMsg>>} ELSE {}, {})
    ELSE LET c2 == [cn EXCEPT !.LDSWatch = TRUE]
         IN AfterPush(c2, pushLds(c2, fail), {})

\* case ListenerType
caseListener(cn, r, fail) ==
    IF cn.LDSWatch
    THEN Outcome(cn, <<>>, "continue",
                 IF r.err THEN {<<ListenerType, r.node, ErrMsg>>} ELSE {}, {})
    ELSE LET c2 == [cn EXCEPT !.LDSWatch = TRUE]
         IN AfterPush(c2, pushLds(c2, fail), {})

\* A comparison that takes every list for an ACK of the watched one.
anyLen(names, watched) == TRUE

\* The length test of the RDS and EDS cases.
sameLenOrEmpty(names, watched) ==
    Len(names) = Len(watched) \/ Len(names) = 0

\* case RouteType: an ErrorDetail is logged, no metric exists for RDS.
caseRoute(cn, r, fail) ==
    IF sameLenOrEmpty(r.names, cn.Routes) /\ Len(cn.Routes) > 0
    THEN Outcome(cn, <<>>, "continue", {}, {})
    ELSE LET c2 == [cn EXCEPT !.Routes = r.names]
         IN AfterPush(c2, pushRoute(c2, fail), {})

\* case EndpointType: the metric is counted before the watched list is looked at.
caseEndpoint(cn, r, fail) ==
    LET metric == IF sameLenOrEmpty(r.names, cn.Clusters) /\ r.err
                  THEN {<<EndpointType, r.node, ErrMsg>>} ELSE {}
    IN IF sameLenOrEmpty(r.names, cn.Clusters) /\ Len(cn.Clusters) > 0
       THEN Outcome(cn, <<>>, "continue", metric, {})
       ELSE LET c2 == [cn EXCEPT !.Clusters = r.names]
                p == pushEds(c2, fail)
            IN Outcome(c2, p.sent, IF p.err THEN "return" ELSE "break",
                       metric, Range(r.names))

\* A request branch that names the connection anew at every request.
OnRequestRenames(cn, r, fail, num) ==
    IF r.node = ""
    THEN Outcome(cn, <<>>, "continue", {}, {})
    ELSE IF ParseServiceNode(r.node).err
    THEN Outcome(cn, <<>>, "parse", {}, {})
    ELSE LET c1 == [cn EXCEPT !.modelNode = ParseServiceNode(r.node).ID,
                              !.ConID = connectionID(r.node, num)]
         IN CASE r.type = ClusterType -> caseCluster(c1, r, fail)
              [] r.type = ListenerType -> caseListener(c1, r, fail)
              [] r.type = RouteType -> caseRoute(c1, r, fail)
              [] r.type = EndpointType -> caseEndpoint(c1, r, fail)
              [] OTHER -> Outcome(c1, <<>>, "break", {}, {})

\* The `case discReq, ok = <-reqChannel` branch up to the end of the switch,
\* for a request that was received (ok is true).
OnRequest(cn, r, fail, num) ==
    IF r.node = ""
    THEN Outcome(cn, <<>>, "continue", {}, {})
    ELSE IF ParseServiceNode(r.node).err
    THEN Outcome(cn, <<>>, "parse", {}, {})
    ELSE LET c1 == [cn EXCEPT !.modelNode = ParseServiceNode(r.node).ID,
                              !.ConID = IF cn.ConID = NoConID
                                        THEN connectionID(r.node, num) ELSE @]
         IN CASE r.type = ClusterType -> caseCluster(c1, r, fail)
              [] r.type = ListenerType -> caseListener(c1, r, fail)
              [] r.type = RouteType -> caseRoute(c1, r, fail)
              [] r.type = EndpointType -> caseEndpoint(c1, r, fail)
              [] OTHER -> Outcome(c1, <<>>, "break", {}, {})

\* ------------------------------------------------------ the push branch

\* A push branch that republishes LDS before EDS.
PushOrderLdsFirst == <<ClusterType, RouteType, ListenerType, EndpointType>>

\* The order in which the push branch serves the resource types.
PushOrder == <<ClusterType, RouteType, EndpointType, ListenerType>>

\* The guard of each push of the push branch.
Watched(cn, t) ==
    CASE t = ClusterType -> cn.CDSWatch
      [] t = RouteType -> Len(cn.Routes) > 0
      [] t = EndpointType -> Len(cn.Clusters) > 0
      [] t = ListenerType -> cn.LDSWatch

pushOf(cn, t, fail) ==
    CASE t = ClusterType -> pushCds(cn, fail)
      [] t = RouteType -> pushRoute(cn, fail)
      [] t = EndpointType -> pushEds(cn, fail)
      [] t = ListenerType -> pushLds(cn, fail)

\* The `case <-con.pushChannel` branch from its i-th push on; failing is the
\* type whose push fails in this round ("none": no push fails).  The first
\* error is returned and ends the round.
RECURSIVE PushFrom(_, _, _)
PushFrom(cn, i, failing) ==
    IF i > Len(PushOrder) THEN [sent |-> <<>>, err |-> FALSE]
    ELSE LET t == PushOrder[i]
         IN IF ~Watched(cn, t) THEN PushFrom(cn, i + 1, failing)
            ELSE LET p == pushOf(cn, t, failing = t)
                 IN IF p.err THEN [sent |-> <<>>, err |-> TRUE]
                    ELSE LET rest == PushFrom(cn, i + 1, failing)
                         IN [sent |-> p.sent \o rest.sent, err |-> rest.err]

OnPush(cn, failing) == PushFrom(cn, 1, failing)


\* ------------------------------------------------------------- the tables

\* Go maps as functions on their key set.
MapPut(m, k, v) == [x \in DOMAIN m \cup {k} |-> IF x = k THEN v ELSE m[x]]
MapDel(m, k) == [x \in DOMAIN m \ {k} |-> m[x]]
EmptyMap == [x \in {} |-> x]

\* The process-wide tables: adsClients (ConID -> connection),
\* adsSidecarIDConnectionsMap (node ID -> ConIDs; a missing key reads as the
\* empty map) and the watchers of each EDS cluster (the cluster's EdsClients;
\* a cluster without watchers is not in edsClusters).
NoTables ==
    [clients |-> EmptyMap,
     sidecar |-> [n \in ValidNodes |-> {}],
     eds |-> [k \in Names |-> {}]]

\* addEdsCon: the connection becomes a watcher of the cluster.
addEdsCon(tb, cluster, conID) ==
    [tb EXCEPT !.eds[cluster] = @ \cup {conID}]

\* removeEdsCon: the connection no longer watches the cluster.
removeEdsCon(tb, cluster, conID) ==
    [tb EXCEPT !.eds[cluster] = @ \ {conID}]

RECURSIVE addEdsCons(_, _, _)
addEdsCons(tb, clusters, conID) ==
    IF clusters = {} THEN tb
    ELSE LET k == CHOOSE x \in clusters : TRUE
         IN addEdsCons(addEdsCon(tb, k, conID), clusters \ {k}, conID)

RECURSIVE removeEdsCons(_, _, _)
removeEdsCons(tb, clusters, conID) ==
    IF clusters = {} THEN tb
    ELSE LET k == CHOOSE x \in clusters : TRUE
         IN removeEdsCons(removeEdsCon(tb, k, conID), clusters \ {k}, conID)

\* addCon(conID, con); c is the pointer, cn the connection it points to.
addCon(tb, conID, c, cn) ==
    [tb EXCEPT !.clients = MapPut(@, conID, c),
               !.sidecar = IF cn.modelNode # NoNode
                           THEN [@ EXCEPT ![cn.modelNode] = @ \cup {conID}]
                           ELSE @]

\* A removeCon that leaves the entry of adsClients.
removeConKeepsEntry(tb, conID, cn) == removeEdsCons(tb, Range(cn.Clusters), conID)

\* removeCon(conID, con)
removeCon(tb, conID, cn) ==
    LET t1 == removeEdsCons(tb, Range(cn.Clusters), conID)
    IN [t1 EXCEPT !.clients = MapDel(@, conID),
                  !.sidecar = IF cn.modelNode # NoNode
                              THEN [@ EXCEPT ![cn.modelNode] = @ \ {conID}]
                              ELSE @]

\* The end of the request branch: the first request that gets past the
\* switch registers the connection and defers its removal.
\* The deferred calls of a returning handler.
Deferred(tb, cn) ==
    IF cn.added THEN removeCon(tb, cn.ConID, cn) ELSE tb

\* ------------------------------------------------------------------ state

VARIABLES
    con,               \* con[c]: the XdsConnection of stream c
    returned,          \* "no" while the handler of c runs, else what it returned
    pushChannel,       \* events buffered in con.pushChannel (capacity 1)
    ev,                \* the event the handler of c served last
    out,               \* the responses it wrote to the stream serving it
    lastSent,          \* lastSent[c][t]: what the last response of type t covered
    connectionNumber,  \* the counter behind connectionID
    tables,            \* adsClients, adsSidecarIDConnectionsMap, EDS watchers
    rejected,          \* the reject gauges it incremented serving it
    pushPc,            \* where each caller of adsPushAll stands
    tmpMap,            \* its copy of adsClients
    queue,             \* the connections its loop has still to signal, in order
    nsig,              \* signals it sent to each connection in this call
    arg,               \* the arguments of a call of the route compiler
    ret,               \* what that call returned
    mutex,             \* adsClientsMutex and edsClusterMutex: who holds each
    thread,            \* the goroutines that use the tables: what each runs
    stream,            \* stream[c]: the reader and the handler of stream c
    round              \* round[c]: the calls the handler of c has still to make
                       \* for the event it serves

vars == <<con, returned, pushChannel, ev, out, lastSent, connectionNumber,
          tables, rejected, pushPc, tmpMap, queue, nsig, arg, ret, mutex,
          thread, stream, round>>

\* The discovery server's state, and the route compiler's.
lockVars == <<mutex, thread>>
adsVars == <<con, returned, pushChannel, ev, out, lastSent, connectionNumber,
             tables, rejected, pushPc, tmpMap, queue, nsig, lockVars, stream,
             round>>
callVars == <<arg, ret>>

connVars == <<con, returned, ev, out, lastSent, connectionNumber, tables,
              rejected, round>>
pushVars == <<pushPc, tmpMap, queue, nsig>>

\* The gauges that exist, cdsReject, ldsReject and edsReject: one per type
\* except RDS, each keyed by node and error.  Nothing reads a gauge, so a
\* round's effect on them is the set of keys it added 1 to.
RejectKeys == {ClusterType, ListenerType, EndpointType} \X ValidNodes \X {ErrMsg}

\* ev[c] describes the round the handler of c served last; `was` is what the
\* last response of the request's type covered when the request arrived.
NoEvent ==
    [kind |-> "none", node |-> "", type |-> UnknownType, names |-> <<>>,
     err |-> FALSE, fail |-> "none", flow |-> "none", was |-> NoResp,
     grew |-> FALSE]

\* No call of the route compiler, and none returned.
NoCall == [fn |-> "none"]

\* The locks of the discovery server: those of its two tables, and
\* s.modelMutex of the services it caches.
Mutexes == {"adsClientsMutex", "edsClusterMutex", "modelMutex"}

\* The goroutines that call into the tables at the same time.
Threads == {"t1", "t2"}

\* A sync.RWMutex nobody holds.
Unlocked == [writer |-> "none", readers |-> {}]

\* A goroutine that runs none of the functions that use the tables.
Idle == [fn |-> "idle", pc |-> 0, code |-> <<>>]

\* The two goroutines of a stream when StreamAggregatedResources has made
\* reqChannel and started the reader: the reader is about to call Recv, the
\* handler is at its select, nothing is being sent.
NewStream ==
    [reader |-> "recv", reqChannel |-> 0, closed |-> FALSE,
     handler |-> "select", sending |-> {}]

\* The discovery server with no stream served yet.
AdsInit ==
    /\ stream = [c \in Conns |-> NewStream]
    /\ mutex = [m \in Mutexes |-> Unlocked]
    /\ thread = [t \in Threads |-> Idle]
    /\ con = [c \in Conns |-> NewConnection]
    /\ returned = [c \in Conns |-> "no"]
    /\ pushChannel = [c \in Conns |-> 0]
    /\ ev = [c \in Conns |-> NoEvent]
    /\ out = [c \in Conns |-> <<>>]
    /\ lastSent = [c \in Conns |-> [t \in Types |-> NoResp]]
    /\ connectionNumber = 0
    /\ tables = NoTables
    /\ rejected = [c \in Conns |-> {}]
    /\ pushPc = [p \in Pushers |-> "idle"]
    /\ tmpMap = [p \in Pushers |-> EmptyMap]
    /\ queue = [p \in Pushers |-> <<>>]
    /\ nsig = [p \in Pushers |-> [c \in Conns |-> 0]]
    /\ round = [c \in Conns |-> <<>>]

Init == AdsInit /\ arg = NoCall /\ ret = NoCall

\* The names the last response of type t in `sent` covers, else what was.
LastOf(sent, t, was) ==
    LET idx == {i \in 1..Len(sent) : sent[i].type = t}
    IN IF idx = {} THEN was
       ELSE sent[CHOOSE i \in idx : \A j \in idx : j <= i].names

\* con.stream.Send of the responses `sent`.
Sent(c, sent) ==
    /\ out' = [out EXCEPT ![c] = @ \o sent]
    /\ lastSent' = [lastSent EXCEPT ![c] = [t \in Types |-> LastOf(sent, t, @[t])]]

\* --------------------------------------------- StreamAggregatedResources

\* A call of a round that other goroutines can see the effect of: addEdsCon
\* of a cluster, a push of a type (which sends one response, or fails),
\* the write of con.added, addCon, or the return of the handler with its
\* deferred removeCon.
Step(op, on, fail) == [op |-> op, on |-> on, fail |-> fail]

\* The calls the request branch makes for request r once the conditions of
\* its switch came out as res: addEdsCon for each cluster of an EDS
\* subscription, the push of the request's type, and then, when the
\* connection is not yet added, con.added = true and addCon; or the return
\* of the error.
RequestCalls(r, res, pushes, fail) ==
    LET watch == SelectSeq(r.names, LAMBDA k : k \in res.watch)
    IN [i \in 1..Len(watch) |-> Step("addEdsCon", watch[i], FALSE)]
       \o (IF pushes THEN <<Step("push", r.type, fail)>> ELSE <<>>)
       \o (CASE res.flow = "break" /\ ~res.con.added ->
                    <<Step("added", "", FALSE), Step("addCon", "", FALSE)>>
             [] res.flow = "return" -> <<Step("return", "push", FALSE)>>
             [] res.flow = "parse" -> <<Step("return", "parse", FALSE)>>
             [] OTHER -> <<>>)

\* The calls of the push branch: the pushes of the watched types in order up
\* to the one that fails, and then the return of its error.
PushCalls(cn, failing) ==
    LET res == OnPush(cn, failing)
    IN [i \in 1..Len(res.sent) |-> Step("push", res.sent[i].type, FALSE)]
       \o (IF res.err
           THEN <<Step("push", failing, TRUE), Step("return", "push", FALSE)>>
           ELSE <<>>)

\* The handler of c is at its select: it serves no event.
AtSelect(c) == returned[c] = "no" /\ round[c] = <<>>

\* select takes a request from reqChannel; the handler reads it, sets the
\* fields of its connection and counts a reject.  fail: the push this round
\* calls fails.  A request the handler drops or takes for an ACK ends the
\* round here (continue).
HandleRequest(c, r, fail) ==
    /\ AtSelect(c)
    /\ LET res == OnRequest(con[c], r, fail, connectionNumber)
           ok == OnRequest(con[c], r, FALSE, connectionNumber)
           cn == res.con
       IN /\ fail => ok.sent # <<>>
          /\ ev' = [ev EXCEPT ![c] =
                      [kind |-> "req", node |-> r.node, type |-> r.type,
                       names |-> r.names, err |-> r.err,
                       fail |-> IF fail THEN r.type ELSE "none",
                       flow |-> res.flow,
                       was |-> IF r.type \in Types THEN lastSent[c][r.type]
                               ELSE NoResp,
                       grew |-> /\ ev[c].kind = "req"
                                /\ ev[c].type = r.type
                                /\ Range(ev[c].names) \subseteq Range(r.names)
                                /\ Range(ev[c].names) # Range(r.names)]]
          /\ out' = [out EXCEPT ![c] = <<>>]
          /\ connectionNumber' =
                IF cn.ConID # con[c].ConID THEN connectionNumber + 1
                ELSE connectionNumber
          /\ rejected' = [rejected EXCEPT ![c] = res.metric \cap RejectKeys]
          /\ con' = [con EXCEPT ![c] = cn]
          /\ round' = [round EXCEPT ![c] =
                          RequestCalls(r, res, ok.sent # <<>>, fail)]
    /\ UNCHANGED <<returned, lastSent, tables, pushChannel, pushVars,
                   callVars, lockVars, stream>>

\* select finds reqChannel closed: the peer ended the stream (receiveError
\* is nil) or Recv failed; the handler returns receiveError.
HandleClose(c, receiveError) ==
    /\ AtSelect(c)
    /\ ev' = [ev EXCEPT ![c] = [NoEvent EXCEPT !.kind = "close"]]
    /\ out' = [out EXCEPT ![c] = <<>>]
    /\ rejected' = [rejected EXCEPT ![c] = {}]
    /\ round' = [round EXCEPT ![c] = <<Step("return", receiveError, FALSE)>>]
    /\ UNCHANGED <<con, returned, lastSent, connectionNumber, tables,
                   pushChannel, pushVars, callVars, lockVars, stream>>

\* select takes an event from con.pushChannel.
HandlePush(c, failing) ==
    /\ AtSelect(c)
    /\ pushChannel[c] > 0
    /\ failing # "none" => Watched(con[c], failing)
    /\ pushChannel' = [pushChannel EXCEPT ![c] = @ - 1]
    /\ ev' = [ev EXCEPT ![c] = [NoEvent EXCEPT !.kind = "push", !.fail = failing]]
    /\ out' = [out EXCEPT ![c] = <<>>]
    /\ rejected' = [rejected EXCEPT ![c] = {}]
    /\ round' = [round EXCEPT ![c] = PushCalls(con[c], failing)]
    /\ UNCHANGED <<con, returned, lastSent, connectionNumber, tables,
                   pushVars, callVars, lockVars, stream>>

\* The call the handler of c makes next.
NextCall(c) == Head(round[c])
Calling(c, op) == round[c] # <<>> /\ NextCall(c).op = op
Called(c) == round' = [round EXCEPT ![c] = Tail(@)]

\* s.addEdsCon(c, con.ConID, con) of the loop over con.Clusters.
CallAddEdsCon(c) ==
    /\ Calling(c, "addEdsCon")
    /\ tables' = addEdsCon(tables, NextCall(c).on, con[c].ConID)
    /\ Called(c)
    /\ UNCHANGED <<con, returned, ev, out, lastSent, connectionNumber, rejected,
                   pushChannel, pushVars, callVars, lockVars, stream>>

\* pushCds, pushRoute, pushEds or pushLds, of a request or of a push event:
\* the response is sent, or the push fails and nothing is sent.
CallPush(c) ==
    /\ Calling(c, "push")
    /\ Sent(c, pushOf(con[c], NextCall(c).on, NextCall(c).fail).sent)
    /\ Called(c)
    /\ UNCHANGED <<con, returned, ev, connectionNumber, tables, rejected,
                   pushChannel, pushVars, callVars, lockVars, stream>>

\* The end of the request branch of a connection not yet added:
\* con.added = true, written before addCon is called.
SetAdded(c) ==
    /\ Calling(c, "added")
    /\ con' = [con EXCEPT ![c].added = TRUE]
    /\ Called(c)
    /\ UNCHANGED <<returned, ev, out, lastSent, connectionNumber, tables,
                   rejected, pushChannel, pushVars, callVars, lockVars, stream>>

\* s.addCon(con.ConID, con), the whole of which runs under adsClientsMutex.
CallAddCon(c) ==
    /\ Calling(c, "addCon")
    /\ tables' = addCon(tables, con[c].ConID, c, con[c])
    /\ Called(c)
    /\ UNCHANGED <<con, returned, ev, out, lastSent, connectionNumber, rejected,
                   pushChannel, pushVars, callVars, lockVars, stream>>

\* The handler returns: the deferred removeCon of an added connection, the
\* whole of which runs under adsClientsMutex, and the end of the goroutine.
CallReturn(c) ==
    /\ Calling(c, "return")
    /\ tables' = Deferred(tables, con[c])
    /\ returned' = [returned EXCEPT ![c] = NextCall(c).on]
    /\ Called(c)
    /\ UNCHANGED <<con, ev, out, lastSent, connectionNumber, rejected,
                   pushChannel, pushVars, callVars, lockVars, stream>>

\* The handler of c goes on with the round it is in.
HandlerStep(c) ==
    \/ CallAddEdsCon(c)
    \/ CallPush(c)
    \/ SetAdded(c)
    \/ CallAddCon(c)
    \/ CallReturn(c)


\* ------------------------------------------------------------ adsPushAll

\* The copy of adsClients taken under adsClientsMutex.RLock.
CopyClients(tb) == tb.clients

\* adsPushAll is called.  Its first half recomputes the load assignment of
\* every EDS cluster, which changes none of the state kept here.
PushAllStart(p) ==
    /\ pushPc[p] = "idle"
    /\ pushPc' = [pushPc EXCEPT ![p] = "snapshot"]
    /\ UNCHANGED <<connVars, pushChannel, tmpMap, queue, nsig, callVars, lockVars, stream>>

\* The copy of adsClients; q is the order in which the loop that follows
\* ranges over the copy.
PushAllSnapshot(p, q) ==
    /\ pushPc[p] = "snapshot"
    /\ pushPc' = [pushPc EXCEPT ![p] = "signal"]
    /\ tmpMap' = [tmpMap EXCEPT ![p] = CopyClients(tables)]
    /\ queue' = [queue EXCEPT ![p] = q]
    /\ UNCHANGED <<connVars, pushChannel, nsig, callVars, lockVars, stream>>

\* A loop that passes over the connection after the one it signalled.
LoopSkipsNext(q) == IF Len(q) > 1 THEN Tail(Tail(q)) ELSE Tail(q)

\* What is left of the loop after one iteration.
LoopRest(q) == Tail(q)

\* client.pushChannel <- &XdsEvent{}: blocks while the buffer is full.
PushAllSignal(p) ==
    /\ pushPc[p] = "signal"
    /\ queue[p] # <<>>
    /\ LET c == tmpMap[p][Head(queue[p])]
       IN /\ pushChannel[c] = 0
          /\ pushChannel' = [pushChannel EXCEPT ![c] = 1]
          /\ nsig' = [nsig EXCEPT ![p][c] = @ + 1]
    /\ queue' = [queue EXCEPT ![p] = LoopRest(@)]
    /\ UNCHANGED <<connVars, pushPc, tmpMap, callVars, lockVars, stream>>

\* adsPushAll returns.
PushAllReturn(p) ==
    /\ pushPc[p] = "signal"
    /\ queue[p] = <<>>
    /\ pushPc' = [pushPc EXCEPT ![p] = "idle"]
    /\ tmpMap' = [tmpMap EXCEPT ![p] = EmptyMap]
    /\ nsig' = [nsig EXCEPT ![p] = [c \in Conns |-> 0]]
    /\ UNCHANGED <<connVars, pushChannel, queue, callVars, lockVars, stream>>

\* ---------------------------------------------------------- specification

\* The steps of the streams C, fed the requests R, and of the callers P of
\* adsPushAll.
NextOf(C, R, P) ==
    \/ \E c \in C, r \in R, fail \in BOOLEAN : HandleRequest(c, r, fail)
    \/ \E c \in C, e \in {"nil", "recv"} : HandleClose(c, e)
    \/ \E c \in C, t \in Types \cup {"none"} : HandlePush(c, t)
    \/ \E c \in C : CallAddEdsCon(c)
    \/ \E c \in C : CallPush(c)
    \/ \E c \in C : SetAdded(c)
    \/ \E c \in C : CallAddCon(c)
    \/ \E c \in C : CallReturn(c)
    \/ \E p \in P : PushAllStart(p)
    \/ \E p \in P, q \in Orders(DOMAIN CopyClients(tables)) : PushAllSnapshot(p, q)
    \/ \E p \in P : PushAllSignal(p)
    \/ \E p \in P : PushAllReturn(p)

\* The handler reads nothing but Node.Id of a request whose id is empty or
\* malformed, and nothing but Node.Id and TypeUrl of one of unknown type: one
\* request of each kind stands for all.  It never reads the ResourceNames of
\* a CDS or LDS request: the empty list and one other stand for all.
Canonical(r) ==
    /\ r.node \notin ValidNodes => r.type = UnknownType
    /\ (r.node \notin ValidNodes \/ r.type = UnknownType) => r.names = <<>> /\ ~r.err
    /\ r.type \in {ClusterType, ListenerType} => r.names \in {<<>>, <<"a">>}

\* One stream and one caller of adsPushAll; every request of one proxy.
StreamRequests == {r \in Requests : r.node # "n2" /\ Canonical(r)}

Next == NextOf({"c1"}, StreamRequests, {"p1"})

Spec == Init /\ [][Next]_vars

\* Two streams and the fan-out: each proxy subscribes to CDS and to the
\* endpoints of one cluster.
FanRequests ==
    {r \in Requests : /\ r.node = "n1" /\ ~r.err
                      /\ \/ r.type = ClusterType /\ r.names = <<>>
                         \/ r.type = EndpointType /\ r.names = <<"a">>}

NextFan == NextOf(Conns, FanRequests, Pushers)

\* A handler with an event in its push channel gets to serve it (Go's select
\* picks among the ready cases at random), and a running adsPushAll gets to
\* take its next step when that step is not blocked.  Requests, closes and
\* calls of adsPushAll come from outside and need not happen.
Fairness ==
    /\ \A c \in Conns : WF_vars(\E t \in Types \cup {"none"} : HandlePush(c, t))
    /\ \A c \in Conns : WF_vars(HandlerStep(c))
    /\ \A p \in Pushers :
          WF_vars(\/ \E q \in Orders(DOMAIN CopyClients(tables)) : PushAllSnapshot(p, q)
                  \/ PushAllSignal(p)
                  \/ PushAllReturn(p))

SpecFan == Init /\ [][NextFan]_vars /\ Fairness

\* One stream whose requests carry either node id, a missing one or a
\* malformed one, and subscribe to CDS and to the endpoints of one cluster
\* or of two; and one caller of adsPushAll.
NodeRequests ==
    {r \in [node : NodeIds, type : {ClusterType, EndpointType},
            names : {<<>>, <<"a">>, <<"a", "b">>}, err : {FALSE}] :
        /\ r.node \notin ValidNodes => r.type = ClusterType /\ r.names = <<>>
        /\ r.type = ClusterType => r.names = <<>>}

NextNodes == NextOf({"c1"}, NodeRequests, {"p1"})

SpecNodes == Init /\ [][NextNodes]_vars

\* ------------------------------------------------- locks of the tables

\* A goroutine's way through a function is the list of the lock operations
\* and table accesses it makes, in order.
Ins(do, on) == [do |-> do, on |-> on]

\* edsClusters: the clusters that have a watcher.
EdsClusters(tb) == {k \in Names : tb.eds[k] # {}}

\* edsClientCount: reads len(adsClients) between Lock and Unlock of
\* edsClusterMutex.
edsClientCount ==
    <<Ins("Lock", "edsClusterMutex"),
      Ins("read", "adsClients"),
      Ins("Unlock", "edsClusterMutex")>>

\* adsPushAll up to its loop of sends: the copy of edsClusters under
\* edsClusterMutex, then the copy of adsClients into tmpMap, a range over
\* adsClients under adsClientsMutex.RLock.
adsPushAllCopies ==
    <<Ins("Lock", "edsClusterMutex"),
      Ins("read", "edsClusters"),
      Ins("Unlock", "edsClusterMutex"),
      Ins("RLock", "adsClientsMutex"),
      Ins("range", "adsClients"),
      Ins("RUnlock", "adsClientsMutex")>>

\* adsPushAll: the copies, then the loop over tmpMap, which sends on the
\* push channel of each connection the copy found.
adsPushAllSteps ==
    adsPushAllCopies \o <<Ins("range", "tmpMap")>>

\* A pushRoute that sends before it gives modelMutex back.
pushRouteSendsLocked ==
    <<Ins("RLock", "modelMutex"),
      Ins("read", "services"),
      Ins("send", "stream"),
      Ins("RUnlock", "modelMutex")>>

\* pushRoute: s.services read under modelMutex.RLock, the route
\* configurations built, then con.stream.Send.
pushRouteSteps ==
    <<Ins("RLock", "modelMutex"),
      Ins("read", "services"),
      Ins("RUnlock", "modelMutex"),
      Ins("send", "stream")>>

\* addCon; hasNode is con.modelNode != nil.
addConSteps(hasNode) ==
    <<Ins("Lock", "adsClientsMutex"),
      Ins("write", "adsClients"),
      Ins("read", "adsClients")>>
    \o (IF hasNode
        THEN <<Ins("read", "adsSidecarIDConnectionsMap"),
               Ins("write", "adsSidecarIDConnectionsMap")>>
        ELSE <<>>)
    \o <<Ins("Unlock", "adsClientsMutex")>>

\* removeCon of a connection that watches n clusters; the unlock is
\* deferred.  removeEdsCon is called once for each cluster of con.Clusters,
\* adsClientsMutex held.
removeConSteps(hasNode, n) ==
    <<Ins("Lock", "adsClientsMutex")>>
    \o [i \in 1..n |-> Ins("call", "removeEdsCon")]
    \o
    <<Ins("read", "adsClients"),
      Ins("write", "adsClients"),
      Ins("read", "adsClients")>>
    \o (IF hasNode
        THEN <<Ins("write", "adsSidecarIDConnectionsMap")>>
        ELSE <<>>)
    \o <<Ins("Unlock", "adsClientsMutex")>>

\* writeADSForSidecar: the unlock is deferred, so a failed write unlocks too.
writeADSForSidecar ==
    <<Ins("RLock", "adsClientsMutex"),
      Ins("read", "adsSidecarIDConnectionsMap"),
      Ins("RUnlock", "adsClientsMutex")>>

\* writeAllADS.
writeAllADS ==
    <<Ins("RLock", "adsClientsMutex"),
      Ins("read", "adsClients"),
      Ins("RUnlock", "adsClientsMutex")>>

\* cdsz: ranges over adsClients between RLock and RUnlock, and has no return
\* in between.
cdsz == writeAllADS

\* /debug/adsz: form is the parameter the request carries.
adsz(form) ==
    CASE form = "debug" -> <<>>
      [] form = "push" -> adsPushAllSteps \o <<Ins("read", "adsClients")>>
      [] form = "proxyID" -> writeADSForSidecar
      [] OTHER -> writeAllADS

\* /debug/edsz: form is the parameter the request carries.  With push it
\* calls edsPushAll first; then it ranges over edsClusters between Lock and
\* Unlock of edsClusterMutex, and only the end of the function unlocks.
edsz(form) ==
    IF form = "debug" THEN <<>>
    ELSE (IF form = "push" THEN <<Ins("call", "edsPushAll")>> ELSE <<>>)
         \o <<Ins("Lock", "edsClusterMutex"),
               Ins("range", "edsClusters"),
               Ins("Unlock", "edsClusterMutex")>>

\* edsz's loop printing n clusters; failsAt is the cluster whose w.Write
\* fails, 0 when none does.  The handler returns from inside the loop on a
\* failed write: `rest`, what comes after the loop, is not run.
edszLoop(n, failsAt, rest) ==
    [i \in 1..(IF failsAt = 0 THEN n ELSE failsAt) |-> Ins("read", "edsClusters")]
    \o (IF failsAt = 0 THEN rest ELSE <<>>)

\* The functions a goroutine may be running.
Calls ==
    {[fn |-> "edsClientCount", pc |-> 1, code |-> edsClientCount],
     [fn |-> "adsPushAll", pc |-> 1, code |-> adsPushAllSteps],
     [fn |-> "pushRoute", pc |-> 1, code |-> pushRouteSteps],
     [fn |-> "cdsz", pc |-> 1, code |-> cdsz]}
    \cup {[fn |-> "addCon", pc |-> 1, code |-> addConSteps(b)] : b \in BOOLEAN}
    \cup {[fn |-> "removeCon", pc |-> 1, code |-> removeConSteps(b, n)] :
             b \in BOOLEAN, n \in 0..Cardinality(Names)}
    \cup {[fn |-> "adsz", pc |-> 1, code |-> adsz(f)] :
             f \in {"debug", "push", "proxyID", ""}}
    \cup {[fn |-> "edsz", pc |-> 1, code |-> edsz(f)] :
             f \in {"debug", "push", ""}}

\* The instruction goroutine t stands at.
AtEnd(t) == thread[t].pc > Len(thread[t].code)
Cur(t) == thread[t].code[thread[t].pc]
At(t, dos) == thread[t].fn # "idle" /\ ~AtEnd(t) /\ Cur(t).do \in dos
Advance(t) == thread' = [thread EXCEPT ![t].pc = @ + 1]

\* A goroutine enters one of the functions.
Call(t, f) ==
    /\ thread[t] = Idle
    /\ thread' = [thread EXCEPT ![t] = f]
    /\ UNCHANGED <<connVars, pushChannel, pushVars, callVars, mutex, stream>>

\* Lock: waits until nobody holds the mutex in either mode.
Lock(t) ==
    /\ At(t, {"Lock"})
    /\ mutex[Cur(t).on] = Unlocked
    /\ mutex' = [mutex EXCEPT ![Cur(t).on].writer = t]
    /\ Advance(t)
    /\ UNCHANGED <<connVars, pushChannel, pushVars, callVars, stream>>

\* RLock: waits while the mutex is held in write mode.
RLock(t) ==
    /\ At(t, {"RLock"})
    /\ mutex[Cur(t).on].writer = "none"
    /\ mutex' = [mutex EXCEPT ![Cur(t).on].readers = @ \cup {t}]
    /\ Advance(t)
    /\ UNCHANGED <<connVars, pushChannel, pushVars, callVars, stream>>

\* Unlock and RUnlock.
Unlock(t) ==
    /\ At(t, {"Unlock", "RUnlock"})
    /\ mutex' = [mutex EXCEPT ![Cur(t).on] =
                    IF Cur(t).do = "Unlock"
                    THEN [@ EXCEPT !.writer = "none"]
                    ELSE [@ EXCEPT !.readers = @ \ {t}]]
    /\ Advance(t)
    /\ UNCHANGED <<connVars, pushChannel, pushVars, callVars, stream>>

\* A read or a write of a table.
Access(t) ==
    /\ At(t, {"read", "write"})
    /\ Advance(t)
    /\ UNCHANGED <<connVars, pushChannel, pushVars, callVars, mutex, stream>>

\* The code of a goroutine with its instruction i replaced by `body`.
Splice(code, i, body) ==
    SubSeq(code, 1, i - 1) \o body \o SubSeq(code, i + 1, Len(code))

\* adsPushAll's copy: the range over adsClients fills tmpMap with the
\* connections the table holds now, and the loop over tmpMap will send once
\* for each of them.
RangeAdsClients(t) ==
    /\ At(t, {"range"})
    /\ Cur(t).on = "adsClients"
    /\ LET code == thread[t].code
           n == Cardinality(DOMAIN tables.clients)
           loop == CHOOSE i \in 1..Len(code) : code[i] = Ins("range", "tmpMap")
       IN thread' = [thread EXCEPT ![t] =
                        [@ EXCEPT !.pc = @ + 1,
                                  !.code = Splice(code, loop,
                                      [i \in 1..n |-> Ins("send", "pushChannel")])]]
    /\ UNCHANGED <<connVars, pushChannel, pushVars, callVars, mutex, stream>>

\* edsz's loop begins: it visits the clusters edsClusters holds now, up to
\* the one whose w.Write fails.
RangeEdsClusters(t) ==
    /\ At(t, {"range"})
    /\ Cur(t).on = "edsClusters"
    /\ LET code == thread[t].code
           pc == thread[t].pc
           n == Cardinality(EdsClusters(tables))
       IN \E failsAt \in 0..n :
             thread' = [thread EXCEPT ![t].code =
                           SubSeq(code, 1, pc - 1)
                           \o edszLoop(n, failsAt, SubSeq(code, pc + 1, Len(code)))]
    /\ UNCHANGED <<connVars, pushChannel, pushVars, callVars, mutex, stream>>

\* A call of a function whose body is outside this file: a step the caller
\* makes holding the locks it holds, after which it goes on.
CallOut(t) ==
    /\ At(t, {"call"})
    /\ Advance(t)
    /\ UNCHANGED <<connVars, pushChannel, pushVars, callVars, mutex, stream>>

\* con.stream.Send, or a send on a connection's push channel.  What the
\* send does to the stream and to the channel is HandleRequest's, HandlePush's
\* and PushAllSignal's to say; here it is a step made holding some locks.
Send(t) ==
    /\ At(t, {"send"})
    /\ Advance(t)
    /\ UNCHANGED <<connVars, pushChannel, pushVars, callVars, mutex, stream>>

\* The function returns and its goroutine ends.  A mutex it locked and did
\* not unlock stays locked, held by no goroutine that runs: whatever t runs
\* next is another goroutine.
Return(t) ==
    /\ thread[t].fn # "idle"
    /\ AtEnd(t)
    /\ thread' = [thread EXCEPT ![t] = Idle]
    /\ mutex' = [m \in Mutexes |->
                    IF mutex[m].writer = t
                    THEN [mutex[m] EXCEPT !.writer = "gone"]
                    ELSE mutex[m]]
    /\ UNCHANGED <<connVars, pushChannel, pushVars, callVars, stream>>

\* The stream whose requests fill edsClusters: a proxy that subscribes to the
\* endpoints of a cluster.
WatchRequests ==
    {r \in Requests : /\ r.node = "n1" /\ ~r.err /\ r.type = EndpointType
                      /\ r.names # <<>>}

Watch(c, r) == HandleRequest(c, r, FALSE)

\* The calls of its round: con.added is written before addCon is called,
\* and addCon waits for adsClientsMutex.
WatchStep(c) ==
    \/ CallAddEdsCon(c)
    \/ CallPush(c)
    \/ SetAdded(c)
    \/ mutex["adsClientsMutex"] = Unlocked /\ CallAddCon(c)

NextLocks ==
    \/ \E r \in WatchRequests : Watch("c1", r)
    \/ WatchStep("c1")
    \/ \E t \in Threads : \E f \in Calls : Call(t, f)
    \/ \E t \in Threads : Lock(t)
    \/ \E t \in Threads : RLock(t)
    \/ \E t \in Threads : Unlock(t)
    \/ \E t \in Threads : Access(t)
    \/ \E t \in Threads : RangeAdsClients(t)
    \/ \E t \in Threads : RangeEdsClusters(t)
    \/ \E t \in Threads : CallOut(t)
    \/ \E t \in Threads : Send(t)
    \/ \E t \in Threads : Return(t)

\* A goroutine inside a function goes on: the scheduler runs it, and a
\* sync.RWMutex hands a lock that is freed again and again to each waiter.
FairLocks ==
    \A t \in Threads :
        /\ WF_vars(\/ Unlock(t) \/ Access(t) \/ RangeAdsClients(t)
                   \/ RangeEdsClusters(t) \/ CallOut(t) \/ Send(t) \/ Return(t))
        /\ SF_vars(Lock(t) \/ RLock(t))

SpecLocks == Init /\ [][NextLocks]_vars /\ FairLocks

\* ------------------------------------------- the goroutines of a stream

\* StreamAggregatedResources runs two goroutines per stream: the reader, a
\* loop of stream.Recv and reqChannel <- req, and the handler, a loop of
\* select over reqChannel and con.pushChannel.  reqChannel has room for one
\* request.  What a round computes and registers is HandleRequest's and
\* HandlePush's to say; here a round is the sends it makes and whether it
\* ends the handler.
ReqChannelSize == 1

StreamUnchanged == UNCHANGED <<connVars, pushVars, callVars, lockVars>>

\* stream.Recv returns: a request, or an error (io.EOF, Canceled or another
\* one), on which the reader closes reqChannel and ends.  Once the handler
\* has returned, gRPC has cancelled the stream and Recv returns errors only.
Recv(c, got) ==
    /\ stream[c].reader = "recv"
    /\ got = "req" => stream[c].handler # "returned"
    /\ stream' = [stream EXCEPT ![c] =
                    IF got = "req" THEN [@ EXCEPT !.reader = "send"]
                    ELSE [@ EXCEPT !.reader = "done", !.closed = TRUE]]
    /\ UNCHANGED pushChannel
    /\ StreamUnchanged

\* reqChannel <- req: waits while the buffer is full.
Enqueue(c) ==
    /\ stream[c].reader = "send"
    /\ stream[c].reqChannel < ReqChannelSize
    /\ stream' = [stream EXCEPT ![c].reqChannel = @ + 1, ![c].reader = "recv"]
    /\ UNCHANGED pushChannel
    /\ StreamUnchanged

\* select takes a request from reqChannel.
SelectRequest(c) ==
    /\ stream[c].handler = "select"
    /\ stream[c].reqChannel > 0
    /\ stream' = [stream EXCEPT ![c].reqChannel = @ - 1, ![c].handler = "request"]
    /\ UNCHANGED pushChannel
    /\ StreamUnchanged

\* select finds reqChannel closed and empty: return receiveError.
SelectClosed(c) ==
    /\ stream[c].handler = "select"
    /\ stream[c].reqChannel = 0
    /\ stream[c].closed
    /\ stream' = [stream EXCEPT ![c].handler = "returned"]
    /\ UNCHANGED pushChannel
    /\ StreamUnchanged

\* A push round handed to a goroutine of its own, the handler going back to
\* its select.
SelectPushSpawns(c) ==
    /\ stream[c].handler = "select"
    /\ pushChannel[c] > 0
    /\ pushChannel' = [pushChannel EXCEPT ![c] = @ - 1]
    /\ stream' = [stream EXCEPT ![c].sending = @ \cup {"pusher"}]
    /\ StreamUnchanged

\* select takes an event from con.pushChannel: the handler itself runs
\* pushCds, pushRoute, pushEds and pushLds.
SelectPush(c) ==
    /\ stream[c].handler = "select"
    /\ pushChannel[c] > 0
    /\ pushChannel' = [pushChannel EXCEPT ![c] = @ - 1]
    /\ stream' = [stream EXCEPT ![c].handler = "push"]
    /\ StreamUnchanged

\* The handler, serving a request or a push, calls con.stream.Send.
BeginSend(c) ==
    /\ stream[c].handler \in {"request", "push"}
    /\ "handler" \notin stream[c].sending
    /\ stream' = [stream EXCEPT ![c].sending = @ \cup {"handler"}]
    /\ UNCHANGED pushChannel
    /\ StreamUnchanged

\* con.stream.Send returns to who called it; on an error the handler
\* returns it.
EndSend(c, who, err) ==
    /\ who \in stream[c].sending
    /\ stream' = [stream EXCEPT
                    ![c].sending = @ \ {who},
                    ![c].handler = IF err /\ who = "handler" THEN "returned"
                                   ELSE @]
    /\ UNCHANGED pushChannel
    /\ StreamUnchanged

\* The round ends: back to the select, or the handler returns an error
\* found outside Send (a node id that does not parse, a response that cannot
\* be built).
EndRound(c, err) ==
    /\ stream[c].handler \in {"request", "push"}
    /\ "handler" \notin stream[c].sending
    /\ stream' = [stream EXCEPT ![c].handler = IF err THEN "returned" ELSE "select"]
    /\ UNCHANGED pushChannel
    /\ StreamUnchanged

\* adsPushAll's send on the push channel of a connection of its copy.
Signal(c) ==
    /\ pushChannel[c] = 0
    /\ pushChannel' = [pushChannel EXCEPT ![c] = 1]
    /\ UNCHANGED stream
    /\ StreamUnchanged

NextStream ==
    \/ \E c \in Conns, got \in {"req", "err"} : Recv(c, got)
    \/ \E c \in Conns : Enqueue(c)
    \/ \E c \in Conns : SelectRequest(c)
    \/ \E c \in Conns : SelectClosed(c)
    \/ \E c \in Conns : SelectPush(c)
    \/ \E c \in Conns : BeginSend(c)
    \/ \E c \in Conns, who \in {"handler", "pusher"}, err \in BOOLEAN :
          EndSend(c, who, err)
    \/ \E c \in Conns, err \in BOOLEAN : EndRound(c, err)
    \/ \E c \in Conns : Signal(c)

\* The scheduler runs the reader and the handler; Recv returns (the peer
\* sends, closes, or the stream is cancelled) and Send returns.
FairStream ==
    \A c \in Conns :
        /\ WF_vars(\E got \in {"req", "err"} : Recv(c, got))
        /\ WF_vars(Enqueue(c))
        /\ WF_vars(\E err \in BOOLEAN : EndSend(c, "handler", err))
        /\ WF_vars(\E err \in BOOLEAN : EndRound(c, err))

SpecStream == Init /\ [][NextStream]_vars /\ FairStream

\* ---------------------------------------------------------- route compiler

\* The route compiler of package route (route.go).  A pointer that may be
\* nil, and a value returned together with a `found` flag, is a list of no
\* or one element.  The metrics and log lines of the compiler are left out,
\* and so are the parts of a rule that no step of the compiler reads back:
\* CORS policy, timeout, websocket flag and header, method, authority and
\* scheme matches.

Nil == <<>>
Ptr(v) == <<v>>

\* model.Protocol.IsHTTP: HTTP, HTTP2 and gRPC ports carry HTTP.
IsHTTP(protocol) == protocol \in {"HTTP", "HTTP2", "GRPC"}

\* model.PortList.GetByPort and Get: the first port with the number, the name.
GetByPort(ports, num) ==
    LET idx == {i \in 1..Len(ports) : ports[i].Port = num}
    IN IF idx = {} THEN Nil
       ELSE Ptr(ports[CHOOSE i \in idx : \A j \in idx : i <= j])

Get(ports, name) ==
    LET idx == {i \in 1..Len(ports) : ports[i].Name = name}
    IN IF idx = {} THEN Nil
       ELSE Ptr(ports[CHOOSE i \in idx : \A j \in idx : i <= j])

\* util.BlackHoleCluster and model.BuildSubsetKey: direction|subset|host|port.
BlackHoleCluster == <<"BlackHoleCluster">>
TrafficDirectionOutbound == "outbound"
BuildSubsetKey(direction, subset, hostname, port) ==
    <<direction, subset, hostname, port.Name>>

\* model.LabelsCollection.IsSupersetOf: some labels map of the collection
\* contains every key and value of the selector.
IsSupersetOf(labels, that) == \E l \in labels : that \subseteq l

\* serviceIndex[host]
Lookup(serviceIndex, host) ==
    IF host \in DOMAIN serviceIndex THEN Ptr(serviceIndex[host]) ELSE Nil

\* A `range` over a Go map with key set K: `it` lists every key there is in
\* the order this run visits them.
RangeOver(K, it) == SelectSeq(it, LAMBDA k : k \in K)

\* Every `range` of a run has an order of its own.  `orders` gives the order
\* of each range of the run whose map has more than one key, the ranges
\* named by their place in the run; a map with one key or none has one order.
OrderAt(orders, k, K) ==
    IF k \in DOMAIN orders THEN orders[k] ELSE CHOOSE q \in Orders(K) : TRUE

\* The orders of the ranges of the x-th call of a run.
OrdersOf(orders, x) ==
    [k \in {Tail(t) : t \in {u \in DOMAIN orders : Head(u) = x}} |->
        orders[<<x>> \o k]]

\* s[1] \o s[2] \o ...
RECURSIVE Flatten(_)
Flatten(s) == IF s = <<>> THEN <<>> ELSE Head(s) \o Flatten(Tail(s))

\* A resolution that never looks at the port the destination pins.
ConvertIgnoresPin(destination, vsvcName, in, serviceIndex, defaultPort) ==
    LET svc == Lookup(serviceIndex, destination.Host)
    IN IF svc = Nil THEN BlackHoleCluster
       ELSE LET svcPort == GetByPort(svc[1].Ports, defaultPort)
            IN IF svcPort = Nil THEN BlackHoleCluster
               ELSE BuildSubsetKey(TrafficDirectionOutbound, destination.Subset,
                                   svc[1].Hostname, svcPort[1])

\* A resolution that names a cluster for a host that is no service.
ConvertUnknownHost(destination, vsvcName, in, serviceIndex, defaultPort) ==
    LET svc == Lookup(serviceIndex, destination.Host)
    IN IF svc = Nil
       THEN <<TrafficDirectionOutbound, destination.Subset, destination.Host, "">>
       ELSE ConvertIgnoresPin(destination, vsvcName, in, serviceIndex, defaultPort)

ConvertDestinationToCluster(destination, vsvcName, in, serviceIndex, defaultPort) ==
    LET svc == Lookup(serviceIndex, destination.Host)
    IN IF svc = Nil THEN BlackHoleCluster
       ELSE LET byDefault == GetByPort(svc[1].Ports, defaultPort)
                svcPort ==
                    IF destination.Port = Nil THEN byDefault
                    ELSE CASE destination.Port[1].kind = "name" ->
                                Get(svc[1].Ports, destination.Port[1].Name)
                           [] destination.Port[1].kind = "number" ->
                                GetByPort(svc[1].Ports, destination.Port[1].Number)
                           [] OTHER -> byDefault
            IN IF svcPort = Nil THEN BlackHoleCluster
               ELSE BuildSubsetKey(TrafficDirectionOutbound, destination.Subset,
                                   svc[1].Hostname, svcPort[1])

\* A source check that lets the labels decide even when gateways are named.
sourceMatchEither(match, proxyLabels, gatewayNames) ==
    IF match = Nil THEN TRUE
    ELSE \/ \E i \in 1..Len(match[1].Gateways) :
              match[1].Gateways[i] \in gatewayNames
         \/ IsSupersetOf(proxyLabels, match[1].SourceLabels)

sourceMatchHTTP(match, proxyLabels, gatewayNames) ==
    IF match = Nil THEN TRUE
    ELSE IF Len(match[1].Gateways) > 0
         THEN \E i \in 1..Len(match[1].Gateways) :
                  match[1].Gateways[i] \in gatewayNames
         ELSE IsSupersetOf(proxyLabels, match[1].SourceLabels)

\* The path specifier of a route; prefix "/" unless the match has a uri.
translateRouteMatch(in) ==
    [PathSpecifier |->
        IF in = Nil \/ in[1].Uri = Nil THEN [kind |-> "prefix", value |-> "/"]
        ELSE in[1].Uri[1]]

translateRetryPolicy(in) ==
    IF in # Nil /\ in[1].Attempts > 0
    THEN Ptr([NumRetries |-> in[1].Attempts,
              RetryOn |-> "5xx,connect-failure,refused-stream"])
    ELSE Nil

\* The weight a destination is emitted with.
emittedWeight(dst) == IF dst.Weight = 0 THEN 100 ELSE dst.Weight

\* The cluster specifier of a route action.
ClusterSpecifierOf(weighted) ==
    IF Len(weighted) = 1
    THEN [kind |-> "cluster", Cluster |-> weighted[1].Name]
    ELSE [kind |-> "weighted", Clusters |-> weighted]

\* A rule that redirects only when it routes nowhere.
isRedirectUnlessRouted(in) == in.Redirect # Nil /\ Len(in.Route) = 0

\* redirect := in.Redirect; redirect != nil
isRedirect(in) == in.Redirect # Nil

\* it.headers: the order in which this run ranges over AppendHeaders.
translateRoute(in, match, port, operation, serviceIndex, proxyLabels, gatewayNames, it) ==
    IF ~sourceMatchHTTP(match, proxyLabels, gatewayNames) THEN Nil
    ELSE IF match # Nil /\ match[1].Port # 0 /\ match[1].Port # port THEN Nil
    ELSE LET weighted ==
                 [i \in 1..Len(in.Route) |->
                    [Name |-> ConvertDestinationToCluster(
                                  in.Route[i].Destination, operation, in,
                                  serviceIndex, port),
                     Weight |-> emittedWeight(in.Route[i])]]
             action ==
                 IF isRedirect(in)
                 THEN [kind |-> "redirect",
                       HostRedirect |-> in.Redirect[1].Authority,
                       PathRedirect |-> in.Redirect[1].Uri]
                 ELSE [kind |-> "route",
                       RetryPolicy |-> translateRetryPolicy(in.Retries),
                       Rewrite |-> IF in.Rewrite = Nil THEN Nil
                                   ELSE Ptr([PrefixRewrite |-> in.Rewrite[1].Uri,
                                             HostRewrite |-> in.Rewrite[1].Authority]),
                       RequestHeadersToAdd |->
                           LET keys == RangeOver(DOMAIN in.AppendHeaders, it.headers)
                           IN [i \in 1..Len(keys) |->
                                 [Key |-> keys[i], Value |-> in.AppendHeaders[keys[i]]]],
                       RequestMirrorPolicy |->
                           IF in.Mirror = Nil THEN Nil
                           ELSE Ptr(ConvertDestinationToCluster(
                                        in.Mirror[1], operation, in, serviceIndex, port)),
                       ClusterSpecifier |-> ClusterSpecifierOf(weighted)]
         IN Ptr([Match |-> translateRouteMatch(match),
                 Operation |-> operation,
                 Action |-> action])

\* The order in which the translateRoute called for match j of rule i (j is
\* 0 for a rule without match) ranges over AppendHeaders: each call runs the
\* range anew.  it.headers names the calls <<i, j>>.
HeadersAt(http, it, i, j) ==
    [headers |-> OrderAt(it.headers, <<i, j>>, DOMAIN http.AppendHeaders)]

\* A loop that goes on after a rule without match.
RECURSIVE RoutesFromNoBreak(_, _, _, _, _, _, _)
RoutesFromNoBreak(rule, i, port, serviceIndex, proxyLabels, gatewayNames, it) ==
    IF i > Len(rule.Http) THEN <<>>
    ELSE LET http == rule.Http[i]
             operation == rule.Name
         IN (IF Len(http.Match) = 0
             THEN translateRoute(http, Nil, port, operation, serviceIndex,
                                 proxyLabels, gatewayNames, HeadersAt(http, it, i, 0))
             ELSE Flatten([j \in 1..Len(http.Match) |->
                             translateRoute(http, Ptr(http.Match[j]), port, operation,
                                            serviceIndex, proxyLabels, gatewayNames,
                                            HeadersAt(http, it, i, j))]))
            \o RoutesFromNoBreak(rule, i + 1, port, serviceIndex, proxyLabels,
                                 gatewayNames, it)

\* The routes of the rules from the i-th on.
RECURSIVE RoutesFrom(_, _, _, _, _, _, _)
RoutesFrom(rule, i, port, serviceIndex, proxyLabels, gatewayNames, it) ==
    IF i > Len(rule.Http) THEN <<>>
    ELSE LET http == rule.Http[i]
             operation == rule.Name
         IN IF Len(http.Match) = 0
            THEN translateRoute(http, Nil, port, operation, serviceIndex,
                                proxyLabels, gatewayNames, HeadersAt(http, it, i, 0))
            ELSE Flatten([j \in 1..Len(http.Match) |->
                            translateRoute(http, Ptr(http.Match[j]), port, operation,
                                           serviceIndex, proxyLabels, gatewayNames,
                                           HeadersAt(http, it, i, j))])
                 \o RoutesFrom(rule, i + 1, port, serviceIndex, proxyLabels,
                               gatewayNames, it)

\* The routes returned and whether the error is nil.
TranslateRoutes(virtualService, serviceIndex, port, proxyLabels, gatewayNames, it) ==
    LET rs == RoutesFrom(virtualService, 1, port, serviceIndex, proxyLabels,
                         gatewayNames, it)
    IN IF Len(rs) = 0 THEN [routes |-> Nil, err |-> "no routes matched"]
       ELSE [routes |-> rs, err |-> "nil"]

\* A default route that carries no operation name.
DefaultRouteUnnamed == ""

DefaultRoute == "default-route"

BuildDefaultHTTPRoute(clusterName) ==
    [Match |-> translateRouteMatch(Nil),
     Operation |-> DefaultRoute,
     Action |-> [kind |-> "route", RetryPolicy |-> Nil, Rewrite |-> Nil,
                 RequestHeadersToAdd |-> <<>>, RequestMirrorPolicy |-> Nil,
                 ClusterSpecifier |-> [kind |-> "cluster", Cluster |-> clusterName]]]

\* The hosts of a virtual service that name no service, and the services
\* its other hosts name.
matchServiceHosts(in, serviceIndex) ==
    [hosts |-> SelectSeq(in.Hosts, LAMBDA h : Lookup(serviceIndex, h) = Nil),
     services |-> Flatten([i \in 1..Len(in.Hosts) |->
                             Lookup(serviceIndex, in.Hosts[i])])]

\* The HTTP ports of a service, in the order of svc.Ports.
HTTPPorts(svc) == SelectSeq(svc.Ports, LAMBDA port : IsHTTP(port.Protocol))

\* serviceByPort: the services of each HTTP port number; port 80 with no
\* service when there is no such port.
serviceByPort(services) ==
    LET nums == UNION {{HTTPPorts(services[i])[j].Port :
                          j \in 1..Len(HTTPPorts(services[i]))} :
                       i \in 1..Len(services)}
        of(num) == Flatten([i \in 1..Len(services) |->
                      [j \in 1..Len(SelectSeq(HTTPPorts(services[i]),
                                              LAMBDA port : port.Port = num))
                         |-> services[i]]])
    IN IF nums = {} THEN [num \in {80} |-> <<>>]
       ELSE [num \in nums |-> of(num)]

\* The zero value of GuardedHost.
ZeroGuardedHost == [Port |-> 0, Services |-> <<>>, Hosts |-> <<>>, Routes |-> <<>>]

\* make([]GuardedHost, n)
MakeGuardedHosts(n) == [i \in 1..n |-> ZeroGuardedHost]

\* it.ports: the order in which this run ranges over serviceByPort (named
\* <<>>); it.headers: the orders of the ranges over AppendHeaders, those of
\* the TranslateRoutes of a port named <<port, i, j>>.
translateVirtualHost(in, serviceIndex, proxyLabels, gatewayName, it) ==
    LET ms == matchServiceHosts(in, serviceIndex)
        byPort == serviceByPort(ms.services)
        order == RangeOver(DOMAIN byPort, OrderAt(it.ports, <<>>, DOMAIN byPort))
        hostOf(port) ==
            LET tr == TranslateRoutes(in, serviceIndex, port, proxyLabels,
                                      gatewayName,
                                      [headers |-> OrdersOf(it.headers, port)])
            IN IF tr.err # "nil" \/ Len(tr.routes) = 0 THEN <<>>
               ELSE <<[Port |-> port, Services |-> byPort[port],
                       Hosts |-> ms.hosts, Routes |-> tr.routes]>>
    IN MakeGuardedHosts(Cardinality(DOMAIN byPort))
       \o Flatten([i \in 1..Len(order) |-> hostOf(order[i])])

\* HTTP ports of which only the first gets a default host.
FirstHTTPPort(svc) ==
    LET ports == SelectSeq(svc.Ports, LAMBDA port : IsHTTP(port.Protocol))
    IN IF ports = <<>> THEN <<>> ELSE <<Head(ports)>>

\* for _, port := range svc.Ports { if port.Protocol.IsHTTP() {
DefaultedPorts(svc) == SelectSeq(svc.Ports, LAMBDA port : IsHTTP(port.Protocol))

\* The default hosts of a service without virtual service.
defaultHosts(svc) ==
    LET ports == DefaultedPorts(svc)
    IN [i \in 1..Len(ports) |->
          [Port |-> ports[i].Port,
           Services |-> <<svc>>,
           Hosts |-> <<>>,
           Routes |-> <<BuildDefaultHTTPRoute(
                          BuildSubsetKey(TrafficDirectionOutbound, "",
                                         svc.Hostname, ports[i]))>>]]

\* it.hosts: the order in which this run ranges over `missing`; it.ports,
\* it.headers: the orders in which the i-th translateVirtualHost ranges over
\* its serviceByPort (named <<i>>) and its calls of translateRoute over
\* AppendHeaders (named <<i, port, rule, match>>).
TranslateVirtualHosts(serviceConfigs, services, proxyLabels, gatewayNames, it) ==
    LET translated ==
            Flatten([i \in 1..Len(serviceConfigs) |->
                       translateVirtualHost(serviceConfigs[i], services,
                                            proxyLabels, gatewayNames,
                                            [headers |-> OrdersOf(it.headers, i),
                                             ports |-> OrdersOf(it.ports, i)])])
        missing ==
            DOMAIN services \
            UNION {{translated[i].Services[j].Hostname :
                      j \in 1..Len(translated[i].Services)} :
                   i \in 1..Len(translated)}
        order == RangeOver(missing, it.hosts)
    IN translated \o Flatten([i \in 1..Len(order) |-> defaultHosts(services[order[i]])])

\* ------------------------------------------------ inputs of the compiler
\* The services of the registry: a.svc with two HTTP ports, b.svc with an
\* HTTP and a TCP port, c.svc with a TCP port only.  x.ext is no service.
Hostnames == {"a.svc", "b.svc", "c.svc"}

ServiceOf(h) ==
    CASE h = "a.svc" ->
           [Hostname |-> h,
            Ports |-> <<[Name |-> "http", Port |-> 80, Protocol |-> "HTTP"],
                        [Name |-> "grpc", Port |-> 8080, Protocol |-> "GRPC"]>>]
      [] h = "b.svc" ->
           [Hostname |-> h,
            Ports |-> <<[Name |-> "http", Port |-> 80, Protocol |-> "HTTP"],
                        [Name |-> "tcp", Port |-> 9000, Protocol |-> "TCP"]>>]
      [] OTHER ->
           [Hostname |-> h,
            Ports |-> <<[Name |-> "tcp", Port |-> 9000, Protocol |-> "TCP"]>>]

\* Service indexes, keyed by hostname.
ServiceIndexes == {[h \in S |-> ServiceOf(h)] : S \in SUBSET Hostnames}

\* A port selector: unset, by name or by number.
PortSelectors ==
    {[kind |-> "unset", Name |-> "", Number |-> 0]}
    \cup {[kind |-> "name", Name |-> n, Number |-> 0] :
             n \in {"http", "grpc", "tcp", "nope"}}
    \cup {[kind |-> "number", Name |-> "", Number |-> m] :
             m \in {80, 8080, 9000, 1}}

Destinations ==
    [Host : {"a.svc", "b.svc", "x.ext"},
     Subset : {"", "v1"},
     Port : {Nil} \cup {Ptr(sel) : sel \in PortSelectors}]

ConvertArgs ==
    [fn : {"ConvertDestinationToCluster"},
     destination : Destinations,
     serviceIndex : ServiceIndexes,
     defaultPort : {80, 8080, 9000}]

\* Labels are sets of key/value pairs; a collection holds the labels of
\* the instances of a proxy.
LabelSets ==
    {{}, {<<"app", "a">>}, {<<"app", "a">>, <<"version", "v1">>}, {<<"app", "b">>}}

LabelsCollections ==
    {{{}}, {{<<"app", "a">>}}, {{<<"app", "a">>, <<"version", "v1">>}},
     {{<<"app", "b">>}, {<<"app", "a">>}}}

GatewayLists == {<<>>, <<"gw1">>, <<"gw2">>, <<"gw2", "gw1">>}

GatewayNameSets == SUBSET {"gw1", "mesh"}

HTTPMatchRequests ==
    [Gateways : GatewayLists,
     SourceLabels : LabelSets,
     Port : {0, 80, 8080},
     Uri : {Nil, Ptr([kind |-> "exact", value |-> "/x"])}]

SourceArgs ==
    [fn : {"sourceMatchHTTP"},
     match : {Nil} \cup {Ptr(m) : m \in HTTPMatchRequests},
     proxyLabels : LabelsCollections,
     gatewayNames : GatewayNameSets]

\* The longest list of weighted destinations of a rule.
MaxDests == 2

DestinationWeights ==
    [Destination : {[Host |-> "a.svc", Subset |-> "", Port |-> Nil],
                    [Host |-> "x.ext", Subset |-> "v1", Port |-> Nil]},
     Weight : {0, 25, 75, 100}]

HeaderKeys == {"x-a", "x-b"}

\* AppendHeaders: a map from header keys to values.
HeaderMaps == {[k \in K |-> "1"] : K \in SUBSET HeaderKeys}

\* The orders in which a call of translateRoute ranges over AppendHeaders.
HeaderOrders == [headers : Orders(HeaderKeys)]

HTTPRoutes ==
    [Match : {<<>>},
     Route : SeqsUpTo(DestinationWeights, MaxDests),
     Redirect : {Nil, Ptr([Uri |-> "/new/path", Authority |-> "b.svc"])},
     Rewrite : {Nil, Ptr([Uri |-> "/v2", Authority |-> "c.svc"])},
     Mirror : {Nil, Ptr([Host |-> "b.svc", Subset |-> "", Port |-> Nil])},
     AppendHeaders : HeaderMaps,
     Retries : {Nil, Ptr([Attempts |-> 3])}]

\* No match, one that holds on every port, one for port 8080.
RouteMatches ==
    {Nil,
     Ptr([Gateways |-> <<>>, SourceLabels |-> {}, Port |-> 0,
          Uri |-> Ptr([kind |-> "exact", value |-> "/x"])]),
     Ptr([Gateways |-> <<>>, SourceLabels |-> {}, Port |-> 8080, Uri |-> Nil])}

RouteArgs ==
    [fn : {"translateRoute"},
     in : HTTPRoutes,
     match : RouteMatches,
     port : {80},
     operation : {"vs"},
     serviceIndex : {[h \in {"a.svc", "b.svc"} |-> ServiceOf(h)]},
     proxyLabels : {{{<<"app", "a">>}}},
     gatewayNames : {{"mesh"}}]

\* The longest list of HTTP rules of a virtual service.
MaxRules == 2

\* Match lists of a rule: none, one that holds everywhere, a uri match
\* followed by one for port 8080, one for a foreign gateway.
MatchLists ==
    {<<>>,
     <<[Gateways |-> <<>>, SourceLabels |-> {}, Port |-> 0, Uri |-> Nil]>>,
     <<[Gateways |-> <<>>, SourceLabels |-> {}, Port |-> 0,
        Uri |-> Ptr([kind |-> "exact", value |-> "/x"])],
       [Gateways |-> <<>>, SourceLabels |-> {}, Port |-> 8080,
        Uri |-> Ptr([kind |-> "prefix", value |-> "/y"])]>>,
     <<[Gateways |-> <<"gw2">>, SourceLabels |-> {}, Port |-> 0, Uri |-> Nil]>>}

\* What a rule does: route to a.svc; route to x.ext and mirror to it;
\* split between x.ext and y.ext; redirect.
RuleBodies ==
    LET plain == [Match |-> <<>>, Route |-> <<>>, Redirect |-> Nil, Rewrite |-> Nil,
                  Mirror |-> Nil, AppendHeaders |-> <<>>, Retries |-> Nil]
        to(h, s) == [Host |-> h, Subset |-> s, Port |-> Nil]
    IN {[plain EXCEPT !.Route = <<[Destination |-> to("a.svc", "v1"), Weight |-> 100]>>],
        [plain EXCEPT !.Route = <<[Destination |-> to("x.ext", ""), Weight |-> 0]>>,
                      !.Mirror = Ptr(to("x.ext", "v1"))],
        [plain EXCEPT !.Route = <<[Destination |-> to("x.ext", ""), Weight |-> 25],
                                  [Destination |-> to("y.ext", ""), Weight |-> 75]>>],
        [plain EXCEPT !.Redirect = Ptr([Uri |-> "/new/path", Authority |-> "b.svc"])]}

RuleShapes == {[b EXCEPT !.Match = m] : m \in MatchLists, b \in RuleBodies}

RoutesArgs ==
    [fn : {"TranslateRoutes"},
     virtualService : [Name : {"vs"}, Hosts : {<<"a.svc">>},
                       Http : SeqsUpTo(RuleShapes, MaxRules)],
     serviceIndex : {idx \in ServiceIndexes : DOMAIN idx \subseteq {"a.svc"}},
     port : {80, 8080},
     proxyLabels : {{{<<"app", "a">>}}},
     gatewayNames : {{"mesh"}}]

\* The longest list of virtual services.
MaxConfigs == 2

\* The rule lists of a virtual service: a catch-all that appends two
\* headers; a rule for a foreign gateway; a rule for port 8080 followed by
\* one for a foreign gateway.
HttpLists ==
    LET rule(m, hdrs) ==
            [Match |-> m,
             Route |-> <<[Destination |-> [Host |-> "a.svc", Subset |-> "",
                                           Port |-> Nil],
                          Weight |-> 100]>>,
             Redirect |-> Nil, Rewrite |-> Nil, Mirror |-> Nil,
             AppendHeaders |-> [k \in hdrs |-> "1"], Retries |-> Nil]
        on(gws, port) == <<[Gateways |-> gws, SourceLabels |-> {},
                            Port |-> port, Uri |-> Nil]>>
    IN {<<rule(<<>>, HeaderKeys)>>,
        <<rule(on(<<"gw2">>, 0), {})>>,
        <<rule(on(<<>>, 8080), {}), rule(on(<<"gw2">>, 0), {})>>}

Configs ==
    [Name : {"vs"},
     Hosts : {<<"a.svc">>, <<"x.ext">>, <<"a.svc", "b.svc">>},
     Http : HttpLists]

\* The translateRoute calls <<rule, match>> of one TranslateRoutes that
\* range over an AppendHeaders of more than one key.
HeaderRanges(virtualService) ==
    UNION {{<<i, j>> : j \in IF virtualService.Http[i].Match = <<>> THEN {0}
                             ELSE 1..Len(virtualService.Http[i].Match)} :
           i \in {k \in 1..Len(virtualService.Http) :
                    Cardinality(DOMAIN virtualService.Http[k].AppendHeaders) > 1}}

\* The orders of the ranges of one call of TranslateRoutes.
RoutesIterations(virtualService) ==
    [headers : [HeaderRanges(virtualService) -> Orders(HeaderKeys)]]

\* The ports translateVirtualHost translates the i-th virtual service for.
PortsOf(serviceConfigs, services, i) ==
    DOMAIN serviceByPort(matchServiceHosts(serviceConfigs[i], services).services)

\* The orders in which one call of TranslateVirtualHosts ranges over its
\* maps: AppendHeaders in each call of translateRoute, serviceByPort of each
\* virtual service, missing.
Iterations(serviceConfigs, services) ==
    [headers :
        [UNION {{<<i, port>> \o k : port \in PortsOf(serviceConfigs, services, i),
                                   k \in HeaderRanges(serviceConfigs[i])} :
                i \in 1..Len(serviceConfigs)}
         -> Orders(HeaderKeys)],
     ports :
        [{<<i>> : i \in {k \in 1..Len(serviceConfigs) :
                           Cardinality(PortsOf(serviceConfigs, services, k)) > 1}}
         -> Orders({80, 8080})],
     hosts : Orders(DOMAIN services)]

HostsArgs ==
    [fn : {"TranslateVirtualHosts"},
     serviceConfigs : SeqsUpTo(Configs, MaxConfigs),
     services : ServiceIndexes,
     proxyLabels : {{{<<"app", "a">>}}},
     gatewayNames : {{"mesh"}}]

\* ------------------------------------------------- calls of the compiler
Returned(v) == [fn |-> arg.fn, val |-> v]

CallConvert ==
    /\ arg.fn = "ConvertDestinationToCluster"
    /\ ret' = Returned(ConvertDestinationToCluster(
                           arg.destination, "vs", Nil, arg.serviceIndex,
                           arg.defaultPort))
    /\ UNCHANGED <<adsVars, arg>>

InitConvert == AdsInit /\ arg \in ConvertArgs /\ ret = NoCall

SpecConvert == InitConvert /\ [][CallConvert]_vars

CallSourceMatch ==
    /\ arg.fn = "sourceMatchHTTP"
    /\ ret' = Returned(sourceMatchHTTP(arg.match, arg.proxyLabels,
                                       arg.gatewayNames))
    /\ UNCHANGED <<adsVars, arg>>

InitSource == AdsInit /\ arg \in SourceArgs /\ ret = NoCall

SpecSource == InitSource /\ [][CallSourceMatch]_vars

CallTranslateRoute ==
    /\ arg.fn = "translateRoute"
    /\ \E it \in HeaderOrders :
          ret' = Returned(translateRoute(arg.in, arg.match, arg.port,
                                         arg.operation, arg.serviceIndex,
                                         arg.proxyLabels, arg.gatewayNames, it))
    /\ UNCHANGED <<adsVars, arg>>

InitRoute == AdsInit /\ arg \in RouteArgs /\ ret = NoCall

SpecRoute == InitRoute /\ [][CallTranslateRoute]_vars

CallTranslateRoutes ==
    /\ arg.fn = "TranslateRoutes"
    /\ \E it \in RoutesIterations(arg.virtualService) :
          ret' = Returned(TranslateRoutes(arg.virtualService, arg.serviceIndex,
                                          arg.port, arg.proxyLabels,
                                          arg.gatewayNames, it))
    /\ UNCHANGED <<adsVars, arg>>

InitRoutes == AdsInit /\ arg \in RoutesArgs /\ ret = NoCall

SpecRoutes == InitRoutes /\ [][CallTranslateRoutes]_vars

CallTranslateVirtualHosts ==
    /\ arg.fn = "TranslateVirtualHosts"
    /\ \E it \in Iterations(arg.serviceConfigs, arg.services) :
          ret' = Returned(TranslateVirtualHosts(arg.serviceConfigs, arg.services,
                                                arg.proxyLabels,
                                                arg.gatewayNames, it))
    /\ UNCHANGED <<adsVars, arg>>

InitHosts == AdsInit /\ arg \in HostsArgs /\ ret = NoCall

SpecHosts == InitHosts /\ [][CallTranslateVirtualHosts]_vars

\* ------------------------------------------------------ the config store
\* A hostname is the list of its DNS labels; a wildcard starts with "*".
MaxStack == 3

HostnameValues ==
    {<<"a", "b">>, <<"c", "b">>, <<"b">>, <<"*", "b">>, <<"*">>, <<"*", "a", "b">>}

IsWildcard(h) == h # <<>> /\ Head(h) = "*"

\* The list ends with the labels of x.
EndsWith(o, x) ==
    /\ Len(o) >= Len(x)
    /\ \A i \in 1..Len(x) : o[Len(o) - Len(x) + i] = x[i]

\* Hostname.Matches: literal equality, or the needle is *.x and the other
\* ends in .x or equals x.
Matches(needle, other) ==
    \/ needle = other
    \/ /\ IsWildcard(needle)
       /\ Len(needle) > 1
       /\ EndsWith(other, Tail(needle))

\* Lexicographic order of labels and of lists of labels.
LabelRank(l) == CASE l = "*" -> 0 [] l = "a" -> 1 [] l = "b" -> 2 [] OTHER -> 3

LexLess(a, b) ==
    \E i \in 1..Len(a) :
        /\ i <= Len(b)
        /\ \A k \in 1..(i - 1) : a[k] = b[k]
        /\ LabelRank(a[i]) < LabelRank(b[i])

\* Hostnames.Less: literal before wildcard, longer first, then
\* lexicographic.
Less(a, b) ==
    IF IsWildcard(a) # IsWildcard(b) THEN IsWildcard(b)
    ELSE IF Len(a) # Len(b) THEN Len(a) > Len(b)
    ELSE LexLess(a, b)

\* sort.Sort(Hostnames(stack)): the orders of the stack that Less admits.
SortHostnames(stack) ==
    {q \in {[i \in 1..Len(stack) |-> stack[o[i]]] : o \in Orders(1..Len(stack))} :
        \A i, j \in 1..Len(q) : i < j => ~Less(q[j], q[i])}

\* The first element of the list that the needle matches.
FirstMatch(needle, stack) ==
    LET idx == {i \in 1..Len(stack) : Matches(needle, stack[i])}
    IN IF idx = {} THEN [h |-> <<>>, ok |-> FALSE]
       ELSE [h |-> stack[CHOOSE i \in idx : \A k \in idx : i <= k], ok |-> TRUE]

\* A search that does not sort the stack.
MostSpecificUnsorted(needle, stack) == {FirstMatch(needle, stack)}

\* The results MostSpecificHostMatch can return.
MostSpecificHostMatch(needle, stack) ==
    {FirstMatch(needle, sorted) : sorted \in SortHostnames(stack)}

HostMatchArgs ==
    [fn : {"MostSpecificHostMatch"},
     needle : HostnameValues,
     stack : SeqsUpTo(HostnameValues, MaxStack)]

CallMostSpecificHostMatch ==
    /\ arg.fn = "MostSpecificHostMatch"
    /\ \E v \in MostSpecificHostMatch(arg.needle, arg.stack) : ret' = Returned(v)
    /\ UNCHANGED <<adsVars, arg>>

InitHostMatch == AdsInit /\ arg \in HostMatchArgs /\ ret = NoCall

SpecHostMatch == InitHostMatch /\ [][CallMostSpecificHostMatch]_vars

\* Authentication policies.  A FQDN is the list of its labels, as
\* strings.Split(hostname, ".") gives them.
ClusterDomain == <<"cluster", "local">>

\* ResolveHostname(meta, &IstioService{Name: name})
ResolveHostname(meta, name) ==
    <<name>>
    \o (IF meta.Namespace # "" THEN <<meta.Namespace>> ELSE <<>>)
    \o (IF meta.Domain # <<>> THEN <<"svc">> \o meta.Domain ELSE <<>>)

\* Port.Match: the selector names the port or gives its number.
PortMatch(port, portSelector) ==
    CASE portSelector.kind = "name" -> port.Name = portSelector.Name
      [] portSelector.kind = "number" -> port.Port = portSelector.Number
      [] OTHER -> FALSE

\* 0 - no match, 2 - namespace scope, 3 - workload scope.
matchLevel(spec, hostname, port) ==
    IF Len(spec.Targets) > 0
    THEN IF \E i \in 1..Len(spec.Targets) :
               /\ hostname = ResolveHostname(spec.ConfigMeta, spec.Targets[i].Name)
               /\ \/ Len(spec.Targets[i].Ports) = 0
                  \/ \E k \in 1..Len(spec.Targets[i].Ports) :
                        PortMatch(port, spec.Targets[i].Ports[k])
         THEN 3 ELSE 0
    ELSE 2

\* The loop over specs from the i-th on, with the policy kept so far.
RECURSIVE MostSpecificFrom(_, _, _, _, _, _)
MostSpecificFrom(specs, i, hostname, port, currentMatchLevel, kept) ==
    IF i > Len(specs) THEN IF currentMatchLevel = 0 THEN Nil ELSE kept
    ELSE LET level == matchLevel(specs[i], hostname, port)
         IN IF level > currentMatchLevel
            THEN MostSpecificFrom(specs, i + 1, hostname, port, level, Ptr(specs[i]))
            ELSE MostSpecificFrom(specs, i + 1, hostname, port, currentMatchLevel, kept)

\* store.List(AuthenticationPolicy.Type, namespace): the policies of the
\* namespace, in an order the store chooses.
List(store, namespace) ==
    Orders({spec \in store : spec.ConfigMeta.Namespace = namespace})

\* The results AuthenticationPolicyByDestination can return.
AuthenticationPolicyByDestination(store, hostname, port) ==
    IF Len(hostname) < 2 THEN {Nil}
    ELSE {MostSpecificFrom(specs, 1, hostname, port, 0, Nil) :
             specs \in List(store, hostname[2])}

AuthenticationPolicies ==
    LET meta(name, ns) == [Name |-> name, Namespace |-> ns, Domain |-> ClusterDomain]
        num(n) == [kind |-> "number", Name |-> "", Number |-> n]
        nam(n) == [kind |-> "name", Name |-> n, Number |-> 0]
    IN {[ConfigMeta |-> meta("p1", "ns1"),
         Targets |-> <<[Name |-> "a", Ports |-> <<>>]>>],
        [ConfigMeta |-> meta("p2", "ns1"),
         Targets |-> <<[Name |-> "a", Ports |-> <<num(80)>>]>>],
        [ConfigMeta |-> meta("p3", "ns1"), Targets |-> <<>>],
        [ConfigMeta |-> meta("p4", "ns1"),
         Targets |-> <<[Name |-> "b", Ports |-> <<>>],
                       [Name |-> "a", Ports |-> <<num(9000), nam("grpc")>>]>>],
        [ConfigMeta |-> meta("p5", "ns1"), Targets |-> <<>>],
        [ConfigMeta |-> meta("p6", "ns2"),
         Targets |-> <<[Name |-> "a", Ports |-> <<>>]>>]}

PolicyArgs ==
    [fn : {"AuthenticationPolicyByDestination"},
     store : SUBSET AuthenticationPolicies,
     hostname : {<<"a", "ns1", "svc">> \o ClusterDomain,
                 <<"b", "ns1", "svc">> \o ClusterDomain,
                 <<"a", "ns2", "svc">> \o ClusterDomain,
                 <<"a">>},
     port : {[Name |-> "http", Port |-> 80, Protocol |-> "HTTP"],
             [Name |-> "grpc", Port |-> 8080, Protocol |-> "GRPC"]}]

CallAuthenticationPolicy ==
    /\ arg.fn = "AuthenticationPolicyByDestination"
    /\ \E v \in AuthenticationPolicyByDestination(arg.store, arg.hostname, arg.port) :
          ret' = Returned(v)
    /\ UNCHANGED <<adsVars, arg>>

InitPolicy == AdsInit /\ arg \in PolicyArgs /\ ret = NoCall

SpecPolicy == InitPolicy /\ [][CallAuthenticationPolicy]_vars

\* -------------------------------------------------- gateway listeners
\* The most servers a gateway port has after merging.
MaxServers == 2

\* The ports of the merged gateways and their protocols.
GatewayPorts == {443, 9000}

ParseProtocol(port) == IF port = 443 THEN "HTTPS" ELSE "TCP"

\* A server: its TLS block, its hosts, and whether virtual services give
\* it an HTTP route configuration.
Servers ==
    {[Tls |-> Nil, Hosts |-> <<"foo.com">>, routed |-> TRUE],
     [Tls |-> Ptr([ServerCertificate |-> "cert"]), Hosts |-> <<>>, routed |-> TRUE],
     [Tls |-> Ptr([ServerCertificate |-> "cert"]), Hosts |-> <<"foo.com">>,
      routed |-> TRUE],
     [Tls |-> Ptr([ServerCertificate |-> "cert"]), Hosts |-> <<"bar.com">>,
      routed |-> FALSE]}

ServerLists == SeqsUpTo(Servers, MaxServers) \ {<<>>}

buildGatewayListenerTLSContext(server) ==
    IF server.Tls = Nil THEN Nil
    ELSE Ptr([TlsCertificates |-> <<server.Tls[1].ServerCertificate>>,
              RequireSni |-> TRUE])

chainOpts(server) ==
    [sniHosts |-> server.Hosts,
     tlsContext |-> buildGatewayListenerTLSContext(server)]

\* A chain per server that has a route configuration.
createGatewayHTTPFilterChainOpts(servers) ==
    LET kept == SelectSeq(servers, LAMBDA server : server.routed)
    IN [i \in 1..Len(kept) |-> chainOpts(kept[i])]

createGatewayTCPFilterChainOpts(servers) ==
    [i \in 1..Len(servers) |-> chainOpts(servers[i])]

\* Chains that all keep the SNI requirement of their TLS context.
keepSni(filterChainOpts) == filterChainOpts

\* one filter chain => 0 or 1 certs => SNI not required
relaxSni(filterChainOpts) ==
    IF Len(filterChainOpts) = 1 /\ filterChainOpts[1].tlsContext # Nil
    THEN <<[filterChainOpts[1] EXCEPT !.tlsContext =
               Ptr([filterChainOpts[1].tlsContext[1] EXCEPT !.RequireSni = FALSE])]>>
    ELSE filterChainOpts

\* buildListener: a listener on the port with one filter chain per option.
buildListener(port, filterChainOpts) ==
    [Name |-> port, FilterChains |-> filterChainOpts]

listenerOf(port, servers) ==
    buildListener(port,
        relaxSni(IF ParseProtocol(port) \in {"HTTP", "HTTP2", "GRPC", "HTTPS"}
                 THEN createGatewayHTTPFilterChainOpts(servers)
                 ELSE createGatewayTCPFilterChainOpts(servers)))

\* The loop over merged.Servers in the order `order`; a plugin returns an
\* error for the ports of pluginFails, marshalFilters for those of
\* marshalFails.  The result: the listeners, the error, and what was logged.
buildGatewayListeners(servers, pluginFails, marshalFails, order) ==
    LET listeners == Flatten([i \in 1..Len(order) |->
                        IF order[i] \in marshalFails THEN <<>>
                        ELSE <<listenerOf(order[i], servers[order[i]])>>])
        errs == SelectSeq(order, LAMBDA port : port \in marshalFails)
    IN [listeners |-> listeners,
        err |-> IF Len(listeners) = 0 THEN errs ELSE <<>>,
        logged |-> {<<"warn", port>> : port \in pluginFails}
                   \cup (IF Len(listeners) # 0
                         THEN {<<"info", errs[i]>> : i \in 1..Len(errs)}
                         ELSE {})]

GatewayArgs ==
    UNION {[fn : {"buildGatewayListeners"},
            servers : [P -> ServerLists],
            pluginFails : SUBSET P,
            marshalFails : SUBSET P] : P \in SUBSET GatewayPorts}

CallBuildGatewayListeners ==
    /\ arg.fn = "buildGatewayListeners"
    /\ \E order \in Orders(DOMAIN arg.servers) :
          ret' = Returned(buildGatewayListeners(arg.servers, arg.pluginFails,
                                                arg.marshalFails, order))
    /\ UNCHANGED <<adsVars, arg>>

InitGateway == AdsInit /\ arg \in GatewayArgs /\ ret = NoCall

SpecGateway == InitGateway /\ [][CallBuildGatewayListeners]_vars

\* ----------------------------------------------------- service entries
\* The longest list of hosts of a service entry.
MaxHosts == 2

\* net.ParseCIDR(address) succeeds or net.ParseIP(address) # nil
IsAddress(address) == address \in {"10.0.0.0/8", "1.2.3.4"}

convertPort(port) ==
    [Name |-> port.Name, Port |-> port.Number, Protocol |-> port.Protocol,
     AuthenticationPolicy |-> "NONE"]

convertResolution(resolution) ==
    CASE resolution = "NONE" -> "Passthrough"
      [] resolution = "DNS" -> "DNSLB"
      [] OTHER -> "ClientSideLB"

convertServices(serviceEntry) ==
    LET svcPorts == [i \in 1..Len(serviceEntry.Ports) |->
                        convertPort(serviceEntry.Ports[i])]
        service(host, address) ==
            [MeshExternal |-> serviceEntry.Location = "MESH_EXTERNAL",
             Hostname |-> host,
             Address |-> address,
             Ports |-> svcPorts,
             Resolution |-> convertResolution(serviceEntry.Resolution)]
        ofHost(host) ==
            IF Len(serviceEntry.Addresses) > 0
            THEN LET valid == SelectSeq(serviceEntry.Addresses, IsAddress)
                 IN [i \in 1..Len(valid) |-> service(host, valid[i])]
            ELSE <<service(host, "")>>
    IN Flatten([i \in 1..Len(serviceEntry.Hosts) |-> ofHost(serviceEntry.Hosts[i])])

\* endpoint.Ports[servicePort.Name], zero when the map has no such key.
convertEndpoint(service, servicePort, endpoint) ==
    LET instancePort == IF servicePort.Name \in DOMAIN endpoint.Ports
                        THEN endpoint.Ports[servicePort.Name] ELSE 0
    IN [Endpoint |-> [Address |-> endpoint.Address,
                      Port |-> IF instancePort = 0 THEN servicePort.Number
                               ELSE instancePort,
                      ServicePort |-> convertPort(servicePort)],
        Service |-> service,
        Labels |-> endpoint.Labels]

\* The instances of one service and one service port.
instancesOf(serviceEntry, service, servicePort) ==
    (IF Len(serviceEntry.Endpoints) = 0 /\ serviceEntry.Resolution = "DNS"
     THEN [i \in 1..Len(serviceEntry.Hosts) |->
             [Endpoint |-> [Address |-> serviceEntry.Hosts[i],
                            Port |-> servicePort.Number,
                            ServicePort |-> convertPort(servicePort)],
              Service |-> service,
              Labels |-> {}]]
     ELSE <<>>)
    \o [i \in 1..Len(serviceEntry.Endpoints) |->
          convertEndpoint(service, servicePort, serviceEntry.Endpoints[i])]

convertInstances(serviceEntry) ==
    LET services == convertServices(serviceEntry)
    IN Flatten([i \in 1..Len(services) |->
          Flatten([k \in 1..Len(serviceEntry.Ports) |->
             instancesOf(serviceEntry, services[i], serviceEntry.Ports[k])])])

ServiceEntries ==
    [Hosts : {q \in SeqsUpTo({"h1.com", "h2.com", "h3.com"}, MaxHosts) :
                 \A i, j \in 1..Len(q) : q[i] = q[j] => i = j},
     Ports : {<<>>,
              <<[Name |-> "http", Number |-> 80, Protocol |-> "HTTP"]>>,
              <<[Name |-> "http", Number |-> 80, Protocol |-> "HTTP"],
                [Name |-> "https", Number |-> 443, Protocol |-> "HTTPS"]>>},
     Resolution : {"NONE", "DNS", "STATIC"},
     Location : {"MESH_EXTERNAL", "MESH_INTERNAL"},
     Addresses : {<<>>, <<"10.0.0.0/8">>, <<"bad">>, <<"10.0.0.0/8", "1.2.3.4">>},
     Endpoints : {<<>>,
                  <<[Address |-> "1.1.1.1",
                     Ports |-> [n \in {"http"} |-> 8080],
                     Labels |-> {<<"app", "a">>}]>>}]

InstancesArgs == [fn : {"convertInstances"}, serviceEntry : ServiceEntries]

CallConvertInstances ==
    /\ arg.fn = "convertInstances"
    /\ ret' = Returned(convertInstances(arg.serviceEntry))
    /\ UNCHANGED <<adsVars, arg>>

InitInstances == AdsInit /\ arg \in InstancesArgs /\ ret = NoCall

SpecInstances == InitInstances /\ [][CallConvertInstances]_vars

\* ------------------------------------------- adsPushAll, call by call

\* What one adsPushAll does, in order: updateCluster for each cluster of
\* cMap, its copy of edsClusters, in the order `clusters` of the range over
\* the map, an error of updateCluster being logged; then a send on the push
\* channel of each connection of its copy of adsClients, in the order
\* `clients`.
UpdateCalls(clusters, failing) ==
    Flatten([i \in 1..Len(clusters) |->
        <<[op |-> "updateCluster", on |-> clusters[i]]>>
        \o (IF clusters[i] \in failing
            THEN <<[op |-> "log.Errorf", on |-> clusters[i]]>>
            ELSE <<>>)])

SignalCalls(clients) ==
    [i \in 1..Len(clients) |-> [op |-> "pushChannel <-", on |-> clients[i]]]

\* An adsPushAll that gives up at the first updateCluster that fails.
RECURSIVE UpdateUntilError(_, _)
UpdateUntilError(clusters, failing) ==
    IF clusters = <<>> THEN [calls |-> <<>>, ok |-> TRUE]
    ELSE IF Head(clusters) \in failing
         THEN [calls |-> <<[op |-> "updateCluster", on |-> Head(clusters)],
                           [op |-> "log.Errorf", on |-> Head(clusters)]>>,
               ok |-> FALSE]
         ELSE LET rest == UpdateUntilError(Tail(clusters), failing)
              IN [calls |-> <<[op |-> "updateCluster", on |-> Head(clusters)]>>
                            \o rest.calls,
                  ok |-> rest.ok]

adsPushAllStopsOnError(clusters, failing, clients) ==
    LET upd == UpdateUntilError(clusters, failing)
    IN upd.calls \o (IF upd.ok THEN SignalCalls(clients) ELSE <<>>)

adsPushAll(clusters, failing, clients) ==
    UpdateCalls(clusters, failing) \o SignalCalls(clients)

\* The tables adsPushAll may find, the orders its two loops may take, and
\* the clusters whose updateCluster fails.
PushAllArgs ==
    UNION {UNION {
        [fn : {"adsPushAll"}, clusters : Orders(ks), failing : SUBSET ks,
         clients : Orders(cs)] : ks \in SUBSET Names} : cs \in SUBSET Conns}

CallAdsPushAll ==
    /\ arg.fn = "adsPushAll"
    /\ ret' = Returned(adsPushAll(arg.clusters, arg.failing, arg.clients))
    /\ UNCHANGED <<adsVars, arg>>

InitPushAll == AdsInit /\ arg \in PushAllArgs /\ ret = NoCall

SpecPushAll == InitPushAll /\ [][CallAdsPushAll]_vars

\* ------------------------------------------------- VirtualServices

\* A host or gateway name is the list of its labels: a short name has one.
IstioMeshGateway == <<"mesh">>

\* The most virtual services in the store.
MaxStore == 2

\* ResolveShortnameToFQDN: "*" and a name with a dot stay as they are; a
\* short name gets the namespace and ".svc." and the domain of the config.
ResolveShortnameToFQDN(host, meta) ==
    IF host = <<"*">> THEN host
    ELSE IF Len(host) = 1
         THEN host
              \o (IF meta.Namespace # "" THEN <<meta.Namespace>> ELSE <<>>)
              \o (IF meta.Domain # <<>> THEN <<"svc">> \o meta.Domain ELSE <<>>)
         ELSE host

\* The first loop: does the rule bind to one of `gateways`?
bindsTo(config, gateways) ==
    LET rule == config.Spec
    IN IF Len(rule.Gateways) = 0
       THEN IstioMeshGateway \in gateways
       ELSE \E i \in 1..Len(rule.Gateways) :
               \/ ResolveShortnameToFQDN(rule.Gateways[i], config.ConfigMeta)
                     \in gateways
               \/ rule.Gateways[i] = IstioMeshGateway /\ IstioMeshGateway \in gateways

\* Gateway names resolved where they stand, "mesh" excepted.
resolveGateways(gs, meta) ==
    [i \in 1..Len(gs) |->
        IF gs[i] # IstioMeshGateway THEN ResolveShortnameToFQDN(gs[i], meta)
        ELSE gs[i]]

resolveMatches(ms, meta) ==
    [j \in 1..Len(ms) |->
        [ms[j] EXCEPT !.Gateways = resolveGateways(@, meta)]]

resolveRoutes(ws, meta) ==
    [k \in 1..Len(ws) |->
        [ws[k] EXCEPT !.Destination.Host = ResolveShortnameToFQDN(@, meta)]]

\* The second loop, on one rule: every write goes through r.Spec, the pointer
\* the store's Config holds too, so the rule it leaves is the store's.
resolveRule(rule, meta) ==
    [Hosts |-> [i \in 1..Len(rule.Hosts) |->
                   ResolveShortnameToFQDN(rule.Hosts[i], meta)],
     Gateways |-> resolveGateways(rule.Gateways, meta),
     Http |-> [i \in 1..Len(rule.Http) |->
                  [Match |-> resolveMatches(rule.Http[i].Match, meta),
                   Route |-> resolveRoutes(rule.Http[i].Route, meta),
                   Mirror |-> IF rule.Http[i].Mirror # Nil
                              THEN Ptr([Host |-> ResolveShortnameToFQDN(
                                           rule.Http[i].Mirror[1].Host, meta)])
                              ELSE Nil]],
     Tcp |-> [i \in 1..Len(rule.Tcp) |->
                 [Match |-> resolveMatches(rule.Tcp[i].Match, meta),
                  Route |-> resolveRoutes(rule.Tcp[i].Route, meta)]]]

\* VirtualServices(gateways), `configs` being what store.List returned: the
\* configs it returns, and the configs List returned as the call leaves them.
VirtualServices(configs, gateways) ==
    LET picked == {i \in 1..Len(configs) : bindsTo(configs[i], gateways)}
        after == [i \in 1..Len(configs) |->
                     IF i \in picked
                     THEN [configs[i] EXCEPT
                             !.Spec = resolveRule(@, configs[i].ConfigMeta)]
                     ELSE configs[i]]
    IN [selected |-> Flatten([i \in 1..Len(configs) |->
                        IF i \in picked THEN <<after[i]>> ELSE <<>>]),
        configs |-> after]

\* Virtual services of namespace ns1: hosts, gateways and destinations by
\* short name, by full name, or "*".
ShortHost == <<"reviews">>
FullHost == <<"reviews", "ns1", "svc", "cluster", "local">>
ShortGateway == <<"gw">>
FullGateway == <<"gw", "ns1", "svc", "cluster", "local">>

VirtualServiceSpecs ==
    [Hosts : {<<ShortHost>>, <<FullHost>>, <<<<"*">>>>},
     Gateways : {<<>>, <<IstioMeshGateway>>, <<ShortGateway>>},
     Http : {<<>>,
             <<[Match |-> <<[Gateways |-> <<ShortGateway>>]>>,
                Route |-> <<[Destination |-> [Host |-> ShortHost]]>>,
                Mirror |-> Ptr([Host |-> ShortHost])]>>},
     Tcp : {<<>>,
            <<[Match |-> <<[Gateways |-> <<IstioMeshGateway>>]>>,
               Route |-> <<[Destination |-> [Host |-> FullHost]]>>]>>}]

VirtualServiceConfigs ==
    [ConfigMeta : {[Name |-> "vs", Namespace |-> "ns1", Domain |-> ClusterDomain]},
     Spec : VirtualServiceSpecs]

VirtualServicesArgs ==
    [fn : {"VirtualServices"},
     configs : SeqsUpTo(VirtualServiceConfigs, MaxStore) \ {<<>>},
     gateways : {{IstioMeshGateway}, {FullGateway}, {}}]

CallVirtualServices ==
    /\ arg.fn = "VirtualServices"
    /\ ret' = Returned(VirtualServices(arg.configs, arg.gateways))
    /\ UNCHANGED <<adsVars, arg>>

InitVirtualServices == AdsInit /\ arg \in VirtualServicesArgs /\ ret = NoCall

SpecVirtualServices == InitVirtualServices /\ [][CallVirtualServices]_vars

\* ------------------------------------------------------------ properties

\* The handler of c is through with the event of ev[c]: it made every call
\* of the round.
Served(c) == round[c] = <<>>

\* The last round of c served a request of one of the four types.
IsReq(c) ==
    /\ Served(c)
    /\ ev[c].kind = "req"
    /\ ev[c].type \in Types
    /\ ev[c].node \in ValidNodes

\* The types whose watch is a list of names.
Listed(t) == t \in {RouteType, EndpointType}

\* The list watched for the request's type when the request arrived.
WasList(c) == IF ev[c].was = NoResp THEN <<>> ELSE ev[c].was

\* The list watched now for a listed type.
WatchNow(c, t) == IF t = RouteType THEN con[c].Routes ELSE con[c].Clusters

\* The flag kept now for CDS or LDS.
FlagNow(c, t) == IF t = ClusterType THEN con[c].CDSWatch ELSE con[c].LDSWatch

\* The one response a new subscription of the request's type is answered with.
Answer(c) ==
    [type |-> ev[c].type,
     names |-> IF Listed(ev[c].type) THEN ev[c].names ELSE All]

\* A new subscription was served: one response, or none and the stream is
\* closed when building or sending it failed.
Subscribed(c) ==
    /\ IF Listed(ev[c].type) THEN WatchNow(c, ev[c].type) = ev[c].names
       ELSE FlagNow(c, ev[c].type)
    /\ IF ev[c].fail = "none"
       THEN out[c] = <<Answer(c)>> /\ returned[c] = "no"
       ELSE out[c] = <<>> /\ returned[c] = "push"

\* C1: once a response of a type was sent on a stream, a further request of
\* that type carrying the names of that response produces no response.
C1_AckIdempotence ==
    \A c \in Conns :
        (/\ IsReq(c)
         /\ ev[c].was # NoResp
         /\ Listed(ev[c].type) => ev[c].names = ev[c].was)
        => out[c] = <<>>

\* C2 as stated: a request of a type that names a strict superset of the
\* names of the request of that type served just before it replaces the
\* watch and is answered by exactly one response covering the new names.
C2_SupersetOneResponse ==
    \A c \in Conns :
        (/\ Served(c)
         /\ ev[c].kind = "req" /\ ev[c].type \in Types
         /\ ev[c].grew)
        => /\ Len(out[c]) = 1
           /\ out[c][1].type = ev[c].type
           /\ \/ out[c][1].names = All
              \/ Range(ev[c].names) \subseteq Range(out[c][1].names)
           /\ ev[c].type = RouteType => con[c].Routes = ev[c].names
           /\ ev[c].type = EndpointType => con[c].Clusters = ev[c].names

\* C2: an RDS or EDS request that names a longer list than the one watched,
\* every name of the watched one included, replaces the watched list and is
\* answered by exactly one response covering the new list, unless the push
\* fails: then nothing is sent and the stream is closed.  A CDS or LDS request
\* after the first is answered by nothing, whatever names it carries.
C2_GrowthReplacesWatch ==
    \A c \in Conns :
        IsReq(c) =>
            /\ (/\ Listed(ev[c].type)
                /\ ev[c].was # NoResp
                /\ Len(ev[c].names) > Len(WasList(c))
                /\ Range(WasList(c)) \subseteq Range(ev[c].names))
               => Subscribed(c)
            /\ (~Listed(ev[c].type) /\ ev[c].was # NoResp)
               => out[c] = <<>> /\ returned[c] = "no"

\* An RDS or EDS request added a name to a watched list that was not empty,
\* and was answered.
C2_Witness ==
    \E c \in Conns :
        /\ IsReq(c) /\ Listed(ev[c].type) /\ ev[c].was # NoResp
        /\ WasList(c) # <<>>
        /\ Len(ev[c].names) > Len(WasList(c))
        /\ Range(WasList(c)) \subseteq Range(ev[c].names)
        /\ out[c] = <<Answer(c)>>

\* The request is an ACK to the handler: the flag of its type is set (CDS,
\* LDS), or a list is watched and the request names no resource or as many
\* as the list (RDS, EDS).
IsAck(c) ==
    IF Listed(ev[c].type)
    THEN /\ Len(WasList(c)) > 0
         /\ Len(ev[c].names) = 0 \/ Len(ev[c].names) = Len(WasList(c))
    ELSE ev[c].was # NoResp

\* Nothing was sent and the watch is what it was.
TreatedAsAck(c) ==
    /\ out[c] = <<>>
    /\ IF Listed(ev[c].type) THEN WatchNow(c, ev[c].type) = WasList(c)
       ELSE FlagNow(c, ev[c].type) = (ev[c].was # NoResp)

\* C3 as stated, for an RDS or EDS request that names as many resources as
\* the list watched for its type, a response of that type having been sent
\* before on the stream: it is treated as an ACK, nothing is sent and the
\* watch is left as it was.
C3_SameCardinalityIsAck ==
    \A c \in Conns :
        (/\ IsReq(c)
         /\ Listed(ev[c].type)
         /\ ev[c].was # NoResp
         /\ Len(ev[c].names) = Len(WasList(c)))
        => TreatedAsAck(c)

\* The order in which a push round republishes.
RepublishOrder == <<"CDS", "RDS", "EDS", "LDS">>

\* The types c watches, in that order.
WatchedInOrder(c) ==
    LET watching(t) ==
            \/ t = "CDS" /\ con[c].CDSWatch
            \/ t = "RDS" /\ Len(con[c].Routes) > 0
            \/ t = "EDS" /\ Len(con[c].Clusters) > 0
            \/ t = "LDS" /\ con[c].LDSWatch
    IN SelectSeq(RepublishOrder, watching)

\* The response of type t a push round sends c.
Republished(c, t) ==
    [type |-> t,
     names |-> CASE t = "RDS" -> con[c].Routes
                 [] t = "EDS" -> con[c].Clusters
                 [] OTHER -> All]

\* The responses of a push round of c that sends the first n watched types.
Round(c, n) == [i \in 1..n |-> Republished(c, WatchedInOrder(c)[i])]

\* C4 as stated: a push round sends one response for each watched type, in
\* the order CDS, RDS, EDS, LDS, and nothing else.
C4_PushSendsEveryWatched ==
    \A c \in Conns :
        (Served(c) /\ ev[c].kind = "push")
        => out[c] = Round(c, Len(WatchedInOrder(c)))

\* C4: a push round sends one response for each watched type, in the order
\* CDS, RDS, EDS, LDS, and nothing else; when one of the pushes fails the
\* round sends the responses before it in that order and closes the stream.
C4_PushOrdering ==
    \A c \in Conns :
        (Served(c) /\ ev[c].kind = "push") =>
            LET w == WatchedInOrder(c)
                failed == {i \in 1..Len(w) : w[i] = ev[c].fail}
            IN IF failed = {}
               THEN out[c] = Round(c, Len(w)) /\ returned[c] = "no"
               ELSE /\ \A i \in failed : out[c] = Round(c, i - 1)
                    /\ returned[c] = "push"

\* A push round republished all four types.
C4_Witness ==
    \E c \in Conns :
        /\ Served(c)
        /\ ev[c].kind = "push"
        /\ Len(out[c]) = Len(RepublishOrder)
        /\ con[c].Routes # <<>> /\ con[c].Clusters # <<>>

\* The connections in the copy of adsClients that call p ranges over.
SnapshotOf(p) == {tmpMap[p][id] : id \in DOMAIN tmpMap[p]}

\* c has an entry in adsClients.
InTable(c) == \E id \in DOMAIN tables.clients : tables.clients[id] = c

\* Call p of adsPushAll has c still to signal: c is registered and the call
\* has yet to copy the table, or c is in the copy and the loop has not
\* reached it.
Owed(p, c) ==
    \/ pushPc[p] = "snapshot" /\ InTable(c)
    \/ /\ pushPc[p] = "signal"
       /\ \E i \in 1..Len(queue[p]) : tmpMap[p][queue[p][i]] = c

\* C5: after adsPushAll is called, every registered connection whose stream
\* stays open is signalled by that call, and a signalled connection whose
\* stream stays open serves the signal (a push round, which republishes
\* every type it watches).
C5_FanOutReaches ==
    /\ \A p \in Pushers, c \in Conns :
           Owed(p, c) ~> (returned[c] # "no" \/ nsig[p][c] = 1)
    /\ \A c \in Conns :
           (pushChannel[c] = 1) ~> (returned[c] # "no" \/ pushChannel[c] = 0)

\* C6: a call of adsPushAll that has finished its loop has signalled every
\* connection of its copy of adsClients once; no call signals a connection
\* twice or one outside its copy; and the copy is the table as it is when
\* the copy is taken.
C6_FanOutComplete ==
    /\ [](\A p \in Pushers, c \in Conns :
            /\ nsig[p][c] <= 1
            /\ nsig[p][c] = 1 => c \in SnapshotOf(p)
            /\ (pushPc[p] = "signal" /\ queue[p] = <<>> /\ c \in SnapshotOf(p))
               => nsig[p][c] = 1)
    /\ [][\A p \in Pushers :
            (pushPc[p] = "snapshot" /\ pushPc'[p] = "signal")
            => tmpMap'[p] = tables.clients]_vars

\* A call has ranged over a copy with two connections.
C6_Witness ==
    \E p \in Pushers :
        /\ pushPc[p] = "signal" /\ queue[p] = <<>>
        /\ Cardinality(SnapshotOf(p)) > 1
        /\ \A c \in SnapshotOf(p) : nsig[p][c] = 1

\* C7: an ACK of any of the four types that carries ErrorDetail adds 1 to
\* the reject metric of its type under (node, error) and produces no response.
C7_NegativeAckCounted ==
    \A c \in Conns :
        (IsReq(c) /\ IsAck(c) /\ ev[c].err)
        => /\ rejected[c] = {<<ev[c].type, ev[c].node, ErrMsg>>}
           /\ out[c] = <<>>

\* Type t comes before type u in a push round.
Before(t, u) ==
    \E i, j \in 1..Len(RepublishOrder) :
        i < j /\ RepublishOrder[i] = t /\ RepublishOrder[j] = u

\* C8: when a push fails, in a request round or in a push round, the handler
\* returns the error and the round sends no type from the failing one on;
\* a handler that has returned sends nothing more.
C8_FailureClosesStream ==
    /\ [](\A c \in Conns :
            (Served(c) /\ ev[c].fail # "none")
            => /\ returned[c] = "push"
               /\ ev[c].kind = "req" => out[c] = <<>>
               /\ \A i \in 1..Len(out[c]) : Before(out[c][i].type, ev[c].fail))
    /\ [][\A c \in Conns :
            returned[c] # "no"
            => /\ returned'[c] = returned[c]
               /\ out'[c] = out[c]
               /\ lastSent'[c] = lastSent[c]]_vars

\* A push round failed at RDS: CDS was sent, LDS is watched and was not.
C8_Witness ==
    \E c \in Conns :
        /\ ev[c].kind = "push" /\ ev[c].fail = RouteType
        /\ con[c].CDSWatch /\ con[c].LDSWatch
        /\ Len(out[c]) = 1
        /\ returned[c] = "push"

\* C9: once the handler has returned, on any path, its connection watches
\* no EDS cluster.
C9_ReturnDeregistersEds ==
    \A c \in Conns :
        returned[c] # "no" => \A k \in Names : con[c].ConID \notin tables.eds[k]

\* C10 as stated: adsClients holds an entry for a connection exactly while
\* its stream is open.
C10_MembershipAsStated ==
    \A c \in Conns : InTable(c) <=> returned[c] = "no"

\* addCon has been called for c and has come back.
Added(c) == con[c].added /\ ~Calling(c, "addCon")

\* C10: adsClients holds an entry for a connection, under its ConID, exactly
\* from the addCon of the first request that gets past the switch until the
\* handler returns.
C10_Membership ==
    \A c \in Conns :
        /\ InTable(c) <=> (returned[c] = "no" /\ Added(c))
        /\ InTable(c) => /\ con[c].ConID \in DOMAIN tables.clients
                         /\ tables.clients[con[c].ConID] = c

\* A registered connection's handler has returned and its entry is gone.
C10_Witness ==
    \E c \in Conns :
        /\ con[c].added
        /\ returned[c] # "no"
        /\ ~InTable(c)

\* The types of which c has been sent a response, other than the type of the
\* request it served last.
OthersServed(c) ==
    {t \in Types \ {ev[c].type} : lastSent[c][t] # NoResp}

\* C11 as stated: the first request of a type on a stream yields exactly one
\* response of that type, whichever other types were requested before.
C11_FirstRequestAnswered ==
    \A c \in Conns :
        (IsReq(c) /\ ev[c].was = NoResp)
        => Len(out[c]) = 1 /\ out[c][1].type = ev[c].type

\* C11: the first request of a type on a stream yields exactly one response,
\* of that type and covering the requested names, whichever other types were
\* requested before; when the push fails it yields none and the stream is
\* closed.
C11_Interleaving ==
    \A c \in Conns, others \in SUBSET Types :
        (IsReq(c) /\ ev[c].was = NoResp /\ OthersServed(c) = others)
        => IF ev[c].fail = "none"
           THEN out[c] = <<Answer(c)>> /\ returned[c] = "no"
           ELSE out[c] = <<>> /\ returned[c] = "push"

\* A first LDS request was answered on a stream that had been sent CDS, RDS
\* and EDS responses before.
C11_Witness ==
    \E c \in Conns :
        /\ IsReq(c) /\ ev[c].was = NoResp
        /\ ev[c].type = ListenerType
        /\ OthersServed(c) = Types \ {ListenerType}
        /\ out[c] = <<Answer(c)>>

\* ---- C18
NamesGateway(m) == \E i \in 1..Len(m.Gateways) : m.Gateways[i] \in arg.gatewayNames
LabelsCover(m) == \E l \in arg.proxyLabels : m.SourceLabels \subseteq l

\* C18 as stated: a match clause passes the source check iff one of its
\* gateway names is in gatewayNames or the proxy labels are a superset of
\* its source labels; an absent match clause passes.
C18_EitherGatewayOrLabels ==
    ret.fn = "sourceMatchHTTP" =>
        ret.val = (\/ arg.match = Nil
                   \/ /\ arg.match # Nil
                      /\ (NamesGateway(arg.match[1]) \/ LabelsCover(arg.match[1])))

\* C18: an absent match clause passes; a clause that names gateways passes
\* iff one of them is in gatewayNames, whatever the labels; a clause that
\* names no gateway passes iff the proxy labels are a superset of its
\* source labels.
C18_SourcePredicate ==
    ret.fn = "sourceMatchHTTP" =>
        ret.val = IF arg.match = Nil THEN TRUE
                  ELSE IF arg.match[1].Gateways # <<>>
                       THEN NamesGateway(arg.match[1])
                       ELSE LabelsCover(arg.match[1])

\* A clause whose gateways are all foreign was refused although the proxy
\* labels cover its source labels.
C18_Witness ==
    /\ ret.fn = "sourceMatchHTTP"
    /\ arg.match # Nil
    /\ arg.match[1].Gateways # <<>>
    /\ ~NamesGateway(arg.match[1])
    /\ LabelsCover(arg.match[1])
    /\ ret.val = FALSE

\* ---- C19
\* The ports of the service the destination selects.
SelectedPorts(d, svc, defaultPort) ==
    {svc.Ports[i] : i \in
        {i \in 1..Len(svc.Ports) :
            IF d.Port # Nil /\ d.Port[1].kind = "name"
            THEN svc.Ports[i].Name = d.Port[1].Name
            ELSE IF d.Port # Nil /\ d.Port[1].kind = "number"
            THEN svc.Ports[i].Port = d.Port[1].Number
            ELSE svc.Ports[i].Port = defaultPort}}

\* C19: ConvertDestinationToCluster returns the blackhole cluster iff the
\* destination host is not in the service index or the selected port (the
\* pinned one, else the default port) is no port of the service; otherwise
\* it returns the outbound subset key of the destination's subset, the
\* service's hostname and that port.
C19_Resolution ==
    ret.fn = "ConvertDestinationToCluster" =>
        LET d == arg.destination
            absent == d.Host \notin DOMAIN arg.serviceIndex
            sel == IF absent THEN {}
                   ELSE SelectedPorts(d, arg.serviceIndex[d.Host], arg.defaultPort)
        IN /\ (ret.val = BlackHoleCluster) <=> (absent \/ sel = {})
           /\ ~absent /\ sel # {} =>
                 \E port \in sel :
                    ret.val = <<"outbound", d.Subset, d.Host, port.Name>>

\* A destination that pins a port by name other than the default port
\* was resolved to the pinned port.
C19_Witness ==
    /\ ret.fn = "ConvertDestinationToCluster"
    /\ arg.defaultPort = 80
    /\ arg.destination.Port # Nil
    /\ arg.destination.Port[1].kind = "name"
    /\ ret.val = <<"outbound", "v1", "a.svc", "grpc">>

\* ---- C16
\* translateRoute has returned a route with a route action.
RoutedBy(fn) ==
    /\ ret.fn = fn
    /\ ret.val # Nil
    /\ ret.val[1].Action.kind = "route"

\* C16 as stated: a route with one destination of weight zero is emitted
\* with weight 100 (it is the route's only cluster), and the weights
\* emitted for a route with several destinations are in the proportion of
\* the configured weights.
C16_WeightsPreserved ==
    RoutedBy("translateRoute") =>
        LET cfg == arg.in.Route
            spec == ret.val[1].Action.ClusterSpecifier
        IN /\ Len(cfg) = 1 => spec.kind = "cluster"
           /\ Len(cfg) > 1 =>
                 /\ spec.kind = "weighted"
                 /\ Len(spec.Clusters) = Len(cfg)
                 /\ \A i, j \in 1..Len(cfg) :
                       spec.Clusters[i].Weight * cfg[j].Weight
                          = spec.Clusters[j].Weight * cfg[i].Weight

\* ---- C20
\* C20: every route emitted for a rule with a redirect carries a redirect
\* action, with the rule's authority as host redirect and its uri as path
\* redirect, and nothing else: no cluster, weighted clusters, mirror,
\* retry or rewrite.
C20_RedirectPrecedence ==
    /\ ret.fn = "translateRoute"
    /\ ret.val # Nil
    /\ arg.in.Redirect # Nil
    => /\ ret.val[1].Action = [kind |-> "redirect",
                               HostRedirect |-> arg.in.Redirect[1].Authority,
                               PathRedirect |-> arg.in.Redirect[1].Uri]
       /\ DOMAIN ret.val[1].Action = {"kind", "HostRedirect", "PathRedirect"}

\* A rule with a redirect and with destinations, a mirror, retries, a
\* rewrite and headers was emitted as a redirect.
C20_Witness ==
    /\ ret.fn = "translateRoute"
    /\ arg.in.Redirect # Nil
    /\ Len(arg.in.Route) = 2
    /\ arg.in.Mirror # Nil
    /\ arg.in.Retries # Nil
    /\ arg.in.Rewrite # Nil
    /\ DOMAIN arg.in.AppendHeaders = HeaderKeys
    /\ ret.val # Nil
    /\ ret.val[1].Action.kind = "redirect"

\* ---- C12
\* The hosts a rule names as destination or as mirror.
DestinationHosts(http) ==
    {http.Route[i].Destination.Host : i \in 1..Len(http.Route)}
    \cup (IF http.Mirror = Nil THEN {} ELSE {http.Mirror[1].Host})

\* No destination host of the virtual service is in the service index.
AllHostsAbsent ==
    \A i \in 1..Len(arg.virtualService.Http) :
        DestinationHosts(arg.virtualService.Http[i]) \cap DOMAIN arg.serviceIndex = {}

\* The clusters a route refers to.
ClustersOf(r) ==
    IF r.Action.kind # "route" THEN {}
    ELSE (IF r.Action.ClusterSpecifier.kind = "cluster"
          THEN {r.Action.ClusterSpecifier.Cluster}
          ELSE {r.Action.ClusterSpecifier.Clusters[i].Name :
                   i \in 1..Len(r.Action.ClusterSpecifier.Clusters)})
         \cup (IF r.Action.RequestMirrorPolicy = Nil THEN {}
               ELSE {r.Action.RequestMirrorPolicy[1]})

RoutesReturned ==
    /\ ret.fn = "TranslateRoutes"
    /\ ret.val.err = "nil"

\* C12 as stated: if every destination host is absent from the service
\* index, every route TranslateRoutes produces refers to the blackhole
\* cluster.
C12_EveryRouteBlackholed ==
    RoutesReturned /\ AllHostsAbsent =>
        \A i \in 1..Len(ret.val.routes) :
            BlackHoleCluster \in ClustersOf(ret.val.routes[i])

\* C12: if every destination host is absent from the service index, every
\* cluster a produced route refers to, as its cluster, as a weighted
\* cluster or as its mirror, is the blackhole cluster; a route that
\* forwards refers to it, a redirect route refers to no cluster.
C12_BlackholeTotality ==
    RoutesReturned /\ AllHostsAbsent =>
        \A i \in 1..Len(ret.val.routes) :
            LET r == ret.val.routes[i]
            IN /\ ClustersOf(r) \subseteq {BlackHoleCluster}
               /\ (r.Action.kind = "route") <=> (ClustersOf(r) # {})
               /\ (r.Action.kind = "redirect") <=> (ClustersOf(r) = {})

\* A virtual service without a known destination host produced a route
\* split between two clusters and a redirect route.
C12_Witness ==
    /\ RoutesReturned
    /\ AllHostsAbsent
    /\ \E i, j \in 1..Len(ret.val.routes) :
          /\ ret.val.routes[i].Action.kind = "redirect"
          /\ ret.val.routes[j].Action.kind = "route"
          /\ ret.val.routes[j].Action.ClusterSpecifier.kind = "weighted"

\* ---- C17
\* The rules TranslateRoutes looks at: up to the first without match.
LastRule(vs) ==
    LET stops == {i \in 1..Len(vs.Http) : vs.Http[i].Match = <<>>}
    IN IF stops = {} THEN Len(vs.Http)
       ELSE CHOOSE i \in stops : \A k \in stops : i <= k

\* What the i-th rule emits, match by match.
RoutesOfRule(i) ==
    LET http == arg.virtualService.Http[i]
        one(m) == translateRoute(http, m, arg.port, arg.virtualService.Name,
                                 arg.serviceIndex, arg.proxyLabels,
                                 arg.gatewayNames,
                                 CHOOSE it \in HeaderOrders : TRUE)
    IN IF http.Match = <<>> THEN one(Nil)
       ELSE Flatten([j \in 1..Len(http.Match) |-> one(Ptr(http.Match[j]))])

\* C17: the routes are those of the rules in declaration order, match by
\* match, up to the first rule without match; that rule yields exactly one
\* route, a catch-all, which is the last; an error is returned, with no
\* list, exactly when no route was produced.
C17_DeclarationOrder ==
    ret.fn = "TranslateRoutes" =>
        LET vs == arg.virtualService
            last == LastRule(vs)
            expected == Flatten([i \in 1..last |-> RoutesOfRule(i)])
        IN /\ ret.val.routes = expected
           /\ (ret.val.err = "nil") <=> (Len(expected) > 0)
           /\ ret.val.err # "nil" => ret.val.routes = Nil
           /\ last > 0 /\ vs.Http[last].Match = <<>> =>
                 /\ Len(RoutesOfRule(last)) = 1
                 /\ ret.val.routes[Len(ret.val.routes)].Match.PathSpecifier
                       = [kind |-> "prefix", value |-> "/"]

\* A rule with a passing match, then a rule without match, then none of
\* the rule after it: two routes, the second a catch-all of the second rule.
C17_Witness ==
    /\ ret.fn = "TranslateRoutes"
    /\ Len(arg.virtualService.Http) = 2
    /\ Len(arg.virtualService.Http[1].Match) = 2
    /\ arg.virtualService.Http[2].Match = <<>>
    /\ arg.virtualService.Http[1].Redirect = Nil
    /\ arg.virtualService.Http[2].Redirect # Nil
    /\ ret.val.err = "nil"
    /\ Len(ret.val.routes) = 2
    /\ ret.val.routes[1].Action.kind = "route"
    /\ ret.val.routes[2].Action.kind = "redirect"

\* ---- C13
\* Some virtual service names the host among its hosts.
NamedByConfig(h) ==
    \E i \in 1..Len(arg.serviceConfigs) : h \in Range(arg.serviceConfigs[i].Hosts)

\* The one route of the host is a catch-all to the cluster.
OnlyCatchAllTo(host, cluster) ==
    /\ Len(host.Routes) = 1
    /\ host.Routes[1].Match.PathSpecifier = [kind |-> "prefix", value |-> "/"]
    /\ host.Routes[1].Action.kind = "route"
    /\ host.Routes[1].Action.ClusterSpecifier
          = [kind |-> "cluster", Cluster |-> cluster]

\* C13: for every service of the index that no virtual service names as a
\* host, and for each of its HTTP ports, the output holds exactly one
\* host of that service on that port, whose only route is a catch-all to
\* the service's default cluster for the port (outbound, no subset).
C13_DefaultRouteCoverage ==
    ret.fn = "TranslateVirtualHosts" =>
        \A h \in DOMAIN arg.services :
            ~NamedByConfig(h) =>
                \A k \in 1..Len(arg.services[h].Ports) :
                    LET port == arg.services[h].Ports[k]
                        mine == {i \in 1..Len(ret.val) :
                                    /\ ret.val[i].Port = port.Port
                                    /\ arg.services[h] \in Range(ret.val[i].Services)}
                    IN port.Protocol \in {"HTTP", "HTTP2", "GRPC"} =>
                          /\ Cardinality(mine) = 1
                          /\ \A i \in mine :
                                OnlyCatchAllTo(ret.val[i],
                                               <<"outbound", "", h, port.Name>>)

\* a.svc, with two HTTP ports, is in the index and named by no virtual
\* service, while a virtual service for x.ext produced a host: the output
\* holds that host and a default host for each HTTP port of a.svc.
C13_Witness ==
    /\ ret.fn = "TranslateVirtualHosts"
    /\ {"a.svc", "b.svc"} \subseteq DOMAIN arg.services
    /\ ~NamedByConfig("a.svc")
    /\ \E k \in 1..Len(ret.val) : ret.val[k].Hosts = <<"x.ext">>
    /\ \E i, j \in 1..Len(ret.val) :
          /\ ret.val[i].Port = 8080
          /\ ret.val[i].Services = <<arg.services["a.svc"]>>
          /\ ret.val[j].Port = 80
          /\ ret.val[j].Services = <<arg.services["a.svc"]>>

\* ---- C14
\* C14 as stated: every GuardedHost in the list TranslateVirtualHosts
\* returns has at least one route and a port above zero.
C14_HostsWellFormed ==
    ret.fn = "TranslateVirtualHosts" =>
        \A i \in 1..Len(ret.val) :
            /\ ret.val[i].Routes # <<>>
            /\ ret.val[i].Port > 0

\* ---- C15
\* C15 as stated: compiling the same inputs again gives the same output.
C15_RepeatedCompilation ==
    [][ret.fn = "TranslateVirtualHosts" /\ arg' = arg => ret' = ret]_vars

\* ---- C21
\* The operation names of the routes of a host.
OperationsOf(host) == {host.Routes[j].Operation : j \in 1..Len(host.Routes)}

\* The hosts of the output that virtual services produced come first: the
\* longest prefix without a route named "default-route".
TranslatedCount ==
    LET named == {i \in 1..Len(ret.val) : "default-route" \in OperationsOf(ret.val[i])}
    IN IF named = {} THEN Len(ret.val)
       ELSE (CHOOSE i \in named : \A k \in named : i <= k) - 1

\* C21: the output is the hosts translated from the virtual services,
\* every route of which carries the config name of a virtual service that
\* names the host's services and literal hosts, followed by the hosts
\* synthesized for the services that none of the translated hosts serves,
\* every route of which carries "default-route".
C21_OperationNames ==
    ret.fn = "TranslateVirtualHosts" =>
        LET n == TranslatedCount
            served == UNION {{ret.val[i].Services[j].Hostname :
                                j \in 1..Len(ret.val[i].Services)} : i \in 1..n}
        IN /\ \A i \in 1..n :
                 \A op \in OperationsOf(ret.val[i]) :
                    \E k \in 1..Len(arg.serviceConfigs) :
                       /\ op = arg.serviceConfigs[k].Name
                       /\ Range(ret.val[i].Hosts)
                             \subseteq Range(arg.serviceConfigs[k].Hosts)
                       /\ {ret.val[i].Services[j].Hostname :
                              j \in 1..Len(ret.val[i].Services)}
                             \subseteq Range(arg.serviceConfigs[k].Hosts)
           /\ \A i \in (n + 1)..Len(ret.val) :
                 /\ OperationsOf(ret.val[i]) = {"default-route"}
                 /\ Len(ret.val[i].Services) = 1
                 /\ ret.val[i].Services[1].Hostname \notin served
                 /\ ret.val[i].Hosts = <<>>
           /\ \A h \in DOMAIN arg.services \ served :
                 \A k \in 1..Len(arg.services[h].Ports) :
                    arg.services[h].Ports[k].Protocol \in {"HTTP", "HTTP2", "GRPC"} =>
                       \E i \in (n + 1)..Len(ret.val) :
                          /\ ret.val[i].Services = <<arg.services[h]>>
                          /\ ret.val[i].Port = arg.services[h].Ports[k].Port

\* A virtual service for a.svc produced routes named after it, and b.svc,
\* which no virtual service serves, got a route named "default-route".
C21_Witness ==
    /\ ret.fn = "TranslateVirtualHosts"
    /\ {"a.svc", "b.svc"} \subseteq DOMAIN arg.services
    /\ \E i, j \in 1..Len(ret.val) :
          /\ i < j
          /\ ret.val[i].Services = <<arg.services["a.svc"]>>
          /\ OperationsOf(ret.val[i]) = {"vs"}
          /\ ret.val[j].Services = <<arg.services["b.svc"]>>
          /\ OperationsOf(ret.val[j]) = {"default-route"}

\* ---- C22
\* The reorderings of a list.
Reorderings(stack) ==
    {[i \in 1..Len(stack) |-> stack[o[i]]] : o \in Orders(1..Len(stack))}

\* C22: whatever MostSpecificHostMatch returned for a needle and a stack,
\* element and found flag, it returns for every reordering of the stack.
C22_OrderIndependent ==
    ret.fn = "MostSpecificHostMatch" =>
        \A stack \in Reorderings(arg.stack) :
            MostSpecificHostMatch(arg.needle, stack) = {ret.val}

\* A wildcard needle that matches two names of the same length, listed
\* with the lexicographically later one first, got the earlier one.
C22_Witness ==
    /\ ret.fn = "MostSpecificHostMatch"
    /\ arg.needle = <<"*", "b">>
    /\ arg.stack = <<<<"b">>, <<"c", "b">>, <<"a", "b">>>>
    /\ ret.val = [h |-> <<"a", "b">>, ok |-> TRUE]

\* ---- C23
\* The scope tier at which a policy of the store applies to the
\* destination of the call: 3 workload, 2 namespace, 0 not at all.
TierOf(spec) ==
    IF Len(arg.hostname) < 2 \/ spec.ConfigMeta.Namespace # arg.hostname[2] THEN 0
    ELSE IF spec.Targets = <<>> THEN 2
    ELSE IF \E i \in 1..Len(spec.Targets) :
               /\ arg.hostname = <<spec.Targets[i].Name, spec.ConfigMeta.Namespace, "svc">>
                                    \o spec.ConfigMeta.Domain
               /\ \/ spec.Targets[i].Ports = <<>>
                  \/ \E k \in 1..Len(spec.Targets[i].Ports) :
                        \/ spec.Targets[i].Ports[k].Name = arg.port.Name
                        \/ spec.Targets[i].Ports[k].Number = arg.port.Port
         THEN 3 ELSE 0

\* The policy returned is one of the highest tier at which any applies;
\* none is returned iff none applies.
HighestTierReturned ==
    ret.fn = "AuthenticationPolicyByDestination" =>
        IF \A spec \in arg.store : TierOf(spec) = 0 THEN ret.val = Nil
        ELSE /\ ret.val # Nil
             /\ ret.val[1] \in arg.store
             /\ \A spec \in arg.store : TierOf(spec) <= TierOf(ret.val[1])

\* C23 as stated: the policy returned has the highest scope tier among
\* the matching ones, and which of several at that tier is returned does
\* not depend on the order in which the store lists them: a second call
\* with the same store returns the same policy.
C23_PolicySpecificity ==
    /\ []HighestTierReturned
    /\ [][ret.fn = "AuthenticationPolicyByDestination" /\ arg' = arg
             => ret' = ret]_vars

\* ---- C24
\* The ports of the listeners returned.
ListenerPorts == {ret.val.listeners[i].Name : i \in 1..Len(ret.val.listeners)}

\* Something was logged about the port.
LoggedFor(port) == \E kind \in {"warn", "info"} : <<kind, port>> \in ret.val.logged

\* C24 as stated: a listener for which a plugin returned an error or
\* marshalling failed is logged and left out, and every other listener is
\* returned.
C24_FailedListenerOmitted ==
    ret.fn = "buildGatewayListeners" =>
        \A port \in DOMAIN arg.servers :
            IF port \in arg.pluginFails \cup arg.marshalFails
            THEN port \notin ListenerPorts /\ LoggedFor(port)
            ELSE port \in ListenerPorts

\* ---- C25
\* C25 as stated: a TLS filter chain requires SNI iff its listener has
\* more than one filter chain or the chain pins SNI hosts.
C25_SniIffManyOrPinned ==
    ret.fn = "buildGatewayListeners" =>
        \A i \in 1..Len(ret.val.listeners) :
            \A k \in 1..Len(ret.val.listeners[i].FilterChains) :
                LET chain == ret.val.listeners[i].FilterChains[k]
                IN chain.tlsContext # Nil =>
                      (chain.tlsContext[1].RequireSni
                         <=> \/ Len(ret.val.listeners[i].FilterChains) > 1
                             \/ chain.sniHosts # <<>>)

\* C25: a TLS filter chain requires SNI iff its listener has more than
\* one filter chain; a TLS chain that is alone on its listener does not
\* require SNI, whether or not it pins SNI hosts.
C25_SniIffManyChains ==
    ret.fn = "buildGatewayListeners" =>
        \A i \in 1..Len(ret.val.listeners) :
            \A k \in 1..Len(ret.val.listeners[i].FilterChains) :
                LET chain == ret.val.listeners[i].FilterChains[k]
                IN chain.tlsContext # Nil =>
                      (chain.tlsContext[1].RequireSni
                         <=> Len(ret.val.listeners[i].FilterChains) > 1)

\* One listener with a single TLS chain that pins a host and does not
\* require SNI, another with two chains whose TLS chain requires it.
C25_Witness ==
    /\ ret.fn = "buildGatewayListeners"
    /\ \E i, j \in 1..Len(ret.val.listeners) :
          /\ Len(ret.val.listeners[i].FilterChains) = 1
          /\ ret.val.listeners[i].FilterChains[1].sniHosts # <<>>
          /\ ret.val.listeners[i].FilterChains[1].tlsContext # Nil
          /\ ~ret.val.listeners[i].FilterChains[1].tlsContext[1].RequireSni
          /\ Len(ret.val.listeners[j].FilterChains) = 2
          /\ ret.val.listeners[j].FilterChains[2].tlsContext # Nil
          /\ ret.val.listeners[j].FilterChains[2].tlsContext[1].RequireSni

\* ---- C26
\* C26 as stated: for a service entry with DNS resolution and no
\* endpoints (and no addresses, so one service per host), the instances
\* are one per host and service port: as many as hosts times ports, each
\* the instance of the service of its own host.
C26_OneInstancePerHost ==
    /\ ret.fn = "convertInstances"
    /\ arg.serviceEntry.Resolution = "DNS"
    /\ arg.serviceEntry.Endpoints = <<>>
    /\ arg.serviceEntry.Addresses = <<>>
    => /\ Len(ret.val) = Len(arg.serviceEntry.Hosts) * Len(arg.serviceEntry.Ports)
       /\ \A i \in 1..Len(ret.val) :
             ret.val[i].Endpoint.Address = ret.val[i].Service.Hostname

\* ---- C27
\* The connection call p of adsPushAll signals next.
NextClient(p) == tmpMap[p][Head(queue[p])]

\* Call p stands at a connection whose push channel still holds an event.
AtPending(p) ==
    /\ pushPc[p] = "signal"
    /\ queue[p] # <<>>
    /\ pushChannel[NextClient(p)] = 1

\* C27 as stated: a push channel never holds more than one event, and a call
\* of adsPushAll that reaches a connection whose channel still holds one
\* does not wait for it: its loop can go on to the next connection.
C27_PendingPushDropped ==
    /\ \A c \in Conns : pushChannel[c] <= 1
    /\ \A p \in Pushers : AtPending(p) => ENABLED PushAllSignal(p)

\* ---- C28
\* C28 as stated: every call of adsPushAll returns, whatever the stream
\* handlers do meanwhile.
C28_PushAllReturns ==
    \A p \in Pushers : (pushPc[p] # "idle") ~> (pushPc[p] = "idle")

\* ---- C29
\* Goroutine t holds adsClientsMutex in the mode its access needs: in write
\* mode for a write, in either mode for a read.
HoldsFor(t, do) ==
    \/ mutex["adsClientsMutex"].writer = t
    \/ do \in {"read", "range"} /\ t \in mutex["adsClientsMutex"].readers

\* C29 as stated: every read and every write of adsClients and of
\* adsSidecarIDConnectionsMap is made while holding adsClientsMutex, in
\* write mode for a write; edsClientCount and /debug/adsz included.
C29_TablesUnderLock ==
    \A t \in Threads :
        (/\ At(t, {"read", "write", "range"})
         /\ Cur(t).on \in {"adsClients", "adsSidecarIDConnectionsMap"})
        => HoldsFor(t, Cur(t).do)

\* ---- C30
\* C30 as stated: a goroutine that has locked edsClusterMutex unlocks it,
\* whichever way it leaves the function, and so a goroutine that waits for
\* edsClusterMutex gets it.
C30_ClusterMutexReleased ==
    \A t \in Threads :
        /\ (mutex["edsClusterMutex"].writer = t)
              ~> (mutex["edsClusterMutex"].writer = "none")
        /\ (At(t, {"Lock"}) /\ Cur(t).on = "edsClusterMutex")
              ~> (mutex["edsClusterMutex"].writer = t)

\* ---- C31
\* The mutexes goroutine t holds, in either mode.
Held(t) == {m \in Mutexes : mutex[m].writer = t \/ t \in mutex[m].readers}

\* C31: a goroutine that stands at con.stream.Send or at a send on a push
\* channel holds none of adsClientsMutex, edsClusterMutex and modelMutex.
C31_NoSendUnderLock ==
    \A t \in Threads : At(t, {"send"}) => Held(t) = {}

\* One goroutine is about to send a route response, having read the
\* services under modelMutex, while another is about to signal a connection
\* from adsPushAll, having copied both tables under their locks.
C31_Witness ==
    \E t, u \in Threads :
        /\ thread[t].fn = "pushRoute" /\ At(t, {"send"}) /\ Cur(t).on = "stream"
        /\ thread[u].fn = "adsPushAll" /\ At(u, {"send"})
        /\ Cur(u).on = "pushChannel"

\* ---- C32
\* C32: on one stream no two sends are under way at once, and the send
\* under way is the handler's, in a request round or in a push round.
C32_SerializedSends ==
    \A c \in Conns :
        /\ stream[c].sending \subseteq {"handler"}
        /\ stream[c].sending # {} => stream[c].handler \in {"request", "push"}

\* The handler is sending in a push round while a request waits in
\* reqChannel and the next event waits in the push channel.
C32_Witness ==
    \E c \in Conns :
        /\ stream[c].sending = {"handler"}
        /\ stream[c].handler = "push"
        /\ stream[c].reqChannel = 1
        /\ pushChannel[c] = 1

\* ---- C37
\* C37 as stated: once the handler of a stream has returned, its reader
\* ends: it is not left waiting to put a request in reqChannel.
C37_ReaderTerminates ==
    \A c \in Conns :
        (stream[c].handler = "returned") ~> (stream[c].reader = "done")

\* ---- C33
\* The places in what a call of adsPushAll did where it did op on x.
Places(op, x) ==
    {i \in 1..Len(ret.val) : ret.val[i].op = op /\ ret.val[i].on = x}

\* C33: one adsPushAll calls updateCluster once for each cluster of its
\* copy of edsClusters and for no other; each of these calls comes before
\* the first send on a push channel; and whether or not some updateCluster
\* fails, every cluster is recomputed and every connection of the copy of
\* adsClients is signalled once.
C33_RecomputeThenFanOut ==
    ret.fn = "adsPushAll" =>
        /\ \A k \in Names :
              Cardinality(Places("updateCluster", k)) =
                 IF k \in Range(arg.clusters) THEN 1 ELSE 0
        /\ \A c \in Conns :
              Cardinality(Places("pushChannel <-", c)) =
                 IF c \in Range(arg.clients) THEN 1 ELSE 0
        /\ \A k \in Names, c \in Conns :
              \A i \in Places("updateCluster", k), j \in Places("pushChannel <-", c) :
                 i < j

\* A call over two clusters and two connections, the updateCluster of the
\* cluster that comes first failing.
C33_Witness ==
    /\ ret.fn = "adsPushAll"
    /\ Len(arg.clusters) = 2
    /\ Len(arg.clients) = 2
    /\ arg.clusters[1] \in arg.failing
    /\ Places("log.Errorf", arg.clusters[1]) # {}
    /\ Places("updateCluster", arg.clusters[2]) # {}
    /\ Places("pushChannel <-", arg.clients[2]) # {}

\* ---- C34
\* C34 as stated: a call of VirtualServices leaves the configs the store's
\* List returned as they were: hosts, gateways and destination hosts of
\* every rule.
C34_StoreUntouched ==
    ret.fn = "VirtualServices" => ret.val.configs = arg.configs

\* ---- C35
\* The connection ids adsSidecarIDConnectionsMap holds, under any node id.
Indexed == UNION {tables.sidecar[n] : n \in ValidNodes}

\* C35 as stated: a connection is in adsSidecarIDConnectionsMap, under some
\* node id, exactly when it is in adsClients; every state of the handlers
\* is one in which adsClientsMutex is free, addCon and removeCon being
\* steps of theirs.
C35_SidecarIndexConsistent ==
    Indexed = DOMAIN tables.clients

\* ---- C36
\* The clusters whose watchers include connection c.
WatchedBy(c) == {k \in Names : con[c].ConID \in tables.eds[k]}

\* C36 as stated: when an EDS request has been handled and the handler goes
\* on, the connection is a watcher of exactly the clusters of con.Clusters.
C36_WatchersTrackClusters ==
    \A c \in Conns :
        (/\ Served(c)
         /\ ev[c].kind = "req" /\ ev[c].type = EndpointType
         /\ ev[c].node \in ValidNodes
         /\ ev[c].flow \in {"break", "continue"})
        => WatchedBy(c) = Range(con[c].Clusters)

\* ---- C38
\* C38: every connection in adsClients has a modelNode and a ConID, the key
\* it is under in the table, and so has every connection with an event in
\* its push channel.  ConID is empty until a request with a node id
\* is served and set once such a request has been served and the handler
\* goes on; once set it never changes, whatever node id later requests
\* carry; and a connection enters adsClients only in its call of addCon,
\* made when con.added has just been set, which is never reset, by a
\* connection that is not in the table and never was: addCon is called
\* once at most.
C38_RegisteredIdentified ==
    /\ [](\A c \in Conns :
            /\ \A id \in DOMAIN tables.clients :
                  tables.clients[id] = c =>
                     /\ con[c].modelNode # NoNode
                     /\ con[c].ConID # NoConID
                     /\ con[c].ConID = id
            /\ pushChannel[c] > 0 => con[c].modelNode # NoNode
            /\ (con[c].ConID # NoConID) => (ev[c].kind # "none")
            /\ (/\ Served(c) /\ ev[c].kind = "req"
                /\ ev[c].node # "" /\ returned[c] = "no")
                  => con[c].ConID # NoConID)
    /\ [][\A c \in Conns :
            /\ con[c].ConID # NoConID => con'[c].ConID = con[c].ConID
            /\ con[c].added => con'[c].added
            /\ (~con[c].added /\ con'[c].added) => Calling(c, "addCon")'
            /\ (~InTable(c) /\ InTable(c)') => (Calling(c, "addCon") /\ con[c].added)
            /\ (Calling(c, "addCon") /\ ~Calling(c, "addCon")')
                  => (~InTable(c) /\ InTable(c)')
            /\ (InTable(c) /\ ~InTable(c)') => returned'[c] # "no"
            /\ returned[c] # "no" => returned'[c] = returned[c]
            /\ (con[c].ConID = NoConID /\ con'[c].ConID # NoConID)
                  => (ev'[c].kind = "req" /\ ev'[c].node \in ValidNodes)]_vars

\* A registered connection whose last request carried another node id than
\* the one its ConID was made from, and which then served a push.
C38_Witness ==
    \E c \in Conns :
        /\ InTable(c)
        /\ con[c].ConID = <<"n1", 1>>
        /\ con[c].modelNode = "n2"
        /\ ev[c].kind = "push"


\* ---- C39
\* C39 as stated: for every service of the index and each of its HTTP
\* ports, the output of TranslateVirtualHosts holds at least one host on
\* that port whose Services include the service, also when a virtual
\* service covers the service on only some of its HTTP ports.
C39_PerPortCoverage ==
    ret.fn = "TranslateVirtualHosts" =>
        \A h \in DOMAIN arg.services :
            \A k \in 1..Len(arg.services[h].Ports) :
                LET port == arg.services[h].Ports[k]
                IN port.Protocol \in {"HTTP", "HTTP2", "GRPC"} =>
                      \E i \in 1..Len(ret.val) :
                          /\ ret.val[i].Port = port.Port
                          /\ arg.services[h] \in Range(ret.val[i].Services)

=============================================================================
